---- MODULE Spec2Model ----
(***************************************************************************)
(* A model of the gearmand job broker: libgearman/server_job.c together    *)
(* with libgearman/server_function.c.  Byte strings are tuples of byte     *)
(* values, pointers are identifiers (0 is the null pointer), intrusive     *)
(* lists are kept through their head / end / next fields as in the C       *)
(* structures, and 32-bit unsigned values are pairs <<hi, lo>> of 16-bit   *)
(* halves so that the wrapping arithmetic of uint32_t is kept.             *)
(***************************************************************************)
EXTENDS Integers, Sequences, FiniteSets, TLC

(***************************************************************************)
(* Program constants (libgearman/constants.h).                             *)
(***************************************************************************)
GEARMAN_DEFAULT_MAX_QUEUE_SIZE == 0
GEARMAN_UNIQUE_SIZE == 64
GEARMAN_JOB_HANDLE_SIZE == 64
GEARMAN_JOB_HASH_SIZE == 383
GEARMAN_JOB_PRIORITY_HIGH == 0
GEARMAN_JOB_PRIORITY_NORMAL == 1
GEARMAN_JOB_PRIORITY_LOW == 2
GEARMAN_JOB_PRIORITY_MAX == 3

NULL == 0

(***************************************************************************)
(* uint32_t arithmetic on <<hi, lo>> pairs of 16-bit halves.               *)
(***************************************************************************)
RECURSIVE Pow2(_)
Pow2(n) == IF n = 0 THEN 1 ELSE 2 * Pow2(n - 1)

HalfMod == Pow2(16)

RECURSIVE XorHalf(_, _)
XorHalf(a, b) ==
  IF a = 0 THEN b
  ELSE IF b = 0 THEN a
  ELSE ((a + b) % 2) + 2 * XorHalf(a \div 2, b \div 2)

U32Add(a, b) ==
  LET lo == a[2] + b[2]
  IN  << (a[1] + b[1] + (lo \div HalfMod)) % HalfMod, lo % HalfMod >>

\* a << k, for 0 < k < 16
U32Shl(a, k) ==
  LET lo == a[2] * Pow2(k)
  IN  << (((a[1] * Pow2(k)) % HalfMod) + (lo \div HalfMod)) % HalfMod,
         lo % HalfMod >>

\* a >> k, for 0 < k < 16
U32Shr(a, k) ==
  << a[1] \div Pow2(k),
     (a[2] \div Pow2(k)) + ((a[1] % Pow2(k)) * Pow2(16 - k)) >>

U32Xor(a, b) == << XorHalf(a[1], b[1]), XorHalf(a[2], b[2]) >>

\* a % m for a small modulus m (m * m fits an int)
U32Mod(a, m) == (((a[1] % m) * (HalfMod % m)) + a[2]) % m

U32Zero == << 0, 0 >>
U32One == << 0, 1 >>

(***************************************************************************)
(* _server_job_hash: the one-at-a-time mixing hash over the key bytes.     *)
(***************************************************************************)
\* *ptr as the addition converts it: const char *ptr (line 410) is promoted
\* to int and then to uint32_t, so a byte >= 0x80 is sign-extended by a build
\* whose char is signed and taken as it is by a build whose char is unsigned
CharValue(byte, char_signed) ==
  IF char_signed /\ byte >= 128
  THEN << HalfMod - 1, (HalfMod - 256) + byte >>
  ELSE << 0, byte >>

\* lines 415-417, char: the converted *ptr
HashMix(value, char) ==
  LET v1 == U32Add(value, char)
      v2 == U32Add(v1, U32Shl(v1, 10))
  IN  U32Xor(v2, U32Shr(v2, 6))

\* (the test of next makes TLC compute it before the next round)
RECURSIVE HashLoop(_, _, _, _)
HashLoop(key, i, value, char_signed) ==
  IF i > Len(key) THEN value
  ELSE LET next == HashMix(value, CharValue(key[i], char_signed))
       IN  IF next[1] >= 0 THEN HashLoop(key, i + 1, next, char_signed)
           ELSE next

HashFinal(value) ==
  LET v1 == U32Add(value, U32Shl(value, 3))
      v2 == U32Xor(v1, U32Shr(v1, 11))
  IN  U32Add(v2, U32Shl(v2, 15))

\* the hash of a build whose char is signed (char_signed) or unsigned
server_job_hash_compute(key, char_signed) ==
  LET value == HashFinal(HashLoop(key, 1, U32Zero, char_signed))
  IN  IF value = U32Zero THEN U32One ELSE value

\* n / 10 and n % 10 of a 32-bit value, by long division over the halves
U32DivTen(n) ==
  << n[1] \div 10, (((n[1] % 10) * HalfMod) + n[2]) \div 10 >>

U32ModTen(n) == (((n[1] % 10) * HalfMod) + n[2]) % 10

\* the largest 32-bit value
U32Max == << HalfMod - 1, HalfMod - 1 >>

\* the decimal digits of an unsigned 32-bit number, as printf's %u writes
\* them
RECURSIVE Decimal(_)
Decimal(n) ==
  IF n[1] = 0 /\ n[2] < 10 THEN << 48 + n[2] >>
  ELSE Decimal(U32DivTen(n)) \o << 48 + U32ModTen(n) >>

\* snprintf(dst, size, ...): at most size - 1 bytes are stored
snprintf(size, text) ==
  IF Len(text) < size THEN text ELSE SubSeq(text, 1, size - 1)

\* server->job_handle_prefix
job_handle_prefix == << 72, 58, 115, 49 >>

\* the job handle written by snprintf("%s:%u", prefix, count)
JobHandle(count) ==
  snprintf(GEARMAN_JOB_HANDLE_SIZE,
           job_handle_prefix \o << 58 >> \o Decimal(count))

(***************************************************************************)
(* Bounds and input sets.                                                  *)
(***************************************************************************)
MaxJobs == 2
MaxCons == 2
MaxThreads == 2
MaxDcon == 3
MaxAccept == 4
MaxThreadFree == 1
MaxClients == 2
MaxQueueSize == 2

Cons == 1 .. MaxCons

FunctionNames == { << 102 >>, << 103 >> }

\* a unique of GEARMAN_UNIQUE_SIZE bytes: one more than the job record stores
LongUnique == [i \in 1 .. GEARMAN_UNIQUE_SIZE |-> 97]

Uniques == { << >>, << 45 >>, << 97 >>, LongUnique }

Workloads == { << >>, << 97 >> }

\* the <<unique, workload>> pairs submitted
Submissions ==
  { << << >>, << 97 >> >>, << << 45 >>, << >> >>, << << 45 >>, << 97 >> >>,
    << << 97 >>, << 97 >> >>, << << 97 >>, << >> >>, << LongUnique, << 97 >> >> }

\* values the unassigned key may hold
UninitKeys == { U32Zero, server_job_hash_compute(<< 97 >>, TRUE) }

\* the values server->job_handle_count takes: from 1, and around the wrap of
\* the 32-bit counter
HandleCounts ==
  { << 0, n >> : n \in 0 .. (MaxJobs + 1) } \cup { U32Max }

\* the hash values of the keys the model submits, computed once; these keys
\* hold no byte >= 0x80, so every build computes the same values for them
HashMemo ==
  [ key \in Uniques \cup Workloads \cup { JobHandle(n) : n \in HandleCounts }
      |-> server_job_hash_compute(key, TRUE) ]

_server_job_hash(key) ==
  IF key \in DOMAIN HashMemo THEN HashMemo[key]
  ELSE server_job_hash_compute(key, TRUE)


(***************************************************************************)
(* Return codes (gearman_return_t), job options, byte strings.             *)
(***************************************************************************)
GEARMAN_SUCCESS == "SUCCESS"
GEARMAN_JOB_EXISTS == "JOB_EXISTS"
GEARMAN_JOB_QUEUE_FULL == "JOB_QUEUE_FULL"
GEARMAN_MEMORY_ALLOCATION_FAILURE == "MEMORY_ALLOCATION_FAILURE"
GEARMAN_QUEUE_ERROR == "QUEUE_ERROR"

GEARMAN_SERVER_JOB_QUEUED == "QUEUED"
GEARMAN_SERVER_JOB_IGNORE == "IGNORE"
GEARMAN_SERVER_QUEUE_REPLAY == "QUEUE_REPLAY"

\* a worker pointer that is NULL (worker records are named <<con, function>>)
NoWorker == << >>

Priorities == GEARMAN_JOB_PRIORITY_HIGH .. (GEARMAN_JOB_PRIORITY_MAX - 1)

Range(f) == { f[x] : x \in DOMAIN f }

Min(S) == CHOOSE x \in S : \A y \in S : x <= y

Max(S) == CHOOSE x \in S : \A y \in S : x >= y

MapPut(m, k, v) == [x \in (DOMAIN m) \cup {k} |-> IF x = k THEN v ELSE m[x]]

MapDel(m, k) == [x \in (DOMAIN m) \ {k} |-> m[x]]

SeqDel(q, e) == SelectSeq(q, LAMBDA y : y # e)

(***************************************************************************)
(* State.  The broker (gearman_server_st) with the objects it reaches.     *)
(***************************************************************************)
VARIABLES
  function_list,      \* server->function_list: function ids, head first
  function,           \* the gearman_server_function_st records, by id
  job,                \* the live gearman_server_job_st records, by id
  job_handle_count,   \* server->job_handle_count, 32 bits wide
  job_alloc,          \* the id of the next record gearman_server_job_create gives
  job_hash,           \* server->job_hash: bucket -> chain of jobs, head first
  job_count,          \* server->job_count
  unique_hash,        \* server->unique_hash: bucket -> chain, head first
  unique_count,       \* server->unique_count
  con,                \* the gearman_server_con_st records, by id
  worker,             \* the gearman_server_worker_st records, by <<con, function>>
  client,             \* the gearman_server_client_st records, by id
  options,            \* server->options
  queue,              \* the records held by the persistent queue adapter
  last,               \* history: the latest call of the job interface and its result
  submitted,          \* history: the arguments each live job was created with
  requeued,           \* history: the live jobs that were queued again after a take
  fifo,               \* history: the jobs that gearman_server_job_queue has put
                      \* in a list and that take has not removed, in the order
                      \* of the calls
  reaped,             \* history: the jobs the latest take or peek freed
  issued,             \* history: the job handles given out so far
  gearmand,           \* gearmand_st: threads, thread_add_next, free_dcon_list
  thread,             \* the gearmand_thread_st records, by their place in thread_list
  dcon,               \* the gearmand_con_st structures, by id
  pc,                 \* where each thread is in gearmand_con.c, and its locals
  assigned            \* history: the threads given to the connections, in order

vars ==
  << function_list, function, job, job_handle_count, job_alloc, job_hash,
     job_count, unique_hash, unique_count, con, worker, client, options, queue,
     last, submitted, requeued, fifo, reaped, issued,
     gearmand, thread, dcon, pc, assigned >>

\* the broker state as one value, for the operators that model the C functions
Server ==
  [ function_list |-> function_list, function |-> function, job |-> job,
    job_handle_count |-> job_handle_count, job_alloc |-> job_alloc,
    job_hash |-> job_hash,
    job_count |-> job_count, unique_hash |-> unique_hash,
    unique_count |-> unique_count, con |-> con, worker |-> worker,
    client |-> client, options |-> options,
    queue |-> [queue EXCEPT !.calls = << >>] ]

Commit(s) ==
  /\ function_list' = s.function_list
  /\ function' = s.function
  /\ job' = s.job
  /\ job_handle_count' = s.job_handle_count
  /\ job_alloc' = s.job_alloc
  /\ job_hash' = s.job_hash
  /\ job_count' = s.job_count
  /\ unique_hash' = s.unique_hash
  /\ unique_count' = s.unique_count
  /\ con' = s.con
  /\ worker' = s.worker
  /\ client' = s.client
  /\ options' = s.options
  /\ queue' = s.queue

(***************************************************************************)
(* GEARMAN_HASH_ADD / GEARMAN_HASH_DEL on a table kept as bucket -> chain. *)
(***************************************************************************)
Bucket(hash, key) == IF key \in DOMAIN hash THEN hash[key] ELSE << >>

\* a chain that grows at its end
GEARMAN_HASH_ADD_tail(hash, key, obj) ==
  MapPut(hash, key, Append(Bucket(hash, key), obj))

GEARMAN_HASH_ADD(hash, key, obj) == MapPut(hash, key, << obj >> \o Bucket(hash, key))

\* a removal that leaves the chain as it is
GEARMAN_HASH_DEL_none(hash, key, obj) == hash

GEARMAN_HASH_DEL(hash, key, obj) ==
  LET chain == SeqDel(Bucket(hash, key), obj)
  IN  IF chain = << >> THEN MapDel(hash, key) ELSE MapPut(hash, key, chain)

\* the jobs of a priority list, walked from its head through function_next
RECURSIVE ListFrom(_, _, _)
ListFrom(s, j, fuel) ==
  IF j = NULL \/ fuel = 0 \/ j \notin DOMAIN s.job THEN << >>
  ELSE << j >> \o ListFrom(s, s.job[j].function_next, fuel - 1)

JobList(s, f, priority) ==
  ListFrom(s, s.function[f].job_list[priority], Cardinality(DOMAIN s.job))

(***************************************************************************)
(* server_function.c                                                       *)
(***************************************************************************)
\* memset 0, max_queue_size, GEARMAN_LIST_ADD(server->function, ...)
gearman_server_function_create(s, function_name) ==
  LET f == Len(s.function_list) + 1
      rec == [ function_name |-> function_name,
               max_queue_size |-> GEARMAN_DEFAULT_MAX_QUEUE_SIZE,
               job_total |-> 0, job_running |-> 0, job_count |-> 0,
               job_list |-> [p \in Priorities |-> NULL],
               job_end |-> [p \in Priorities |-> NULL],
               worker_list |-> << >> ]
  IN  [ st |-> [s EXCEPT !.function_list = << f >> \o @,
                         !.function = MapPut(@, f, rec)],
        function |-> f ]

\* a walk that compares the bytes of the shorter name only
function_find_prefix(s, function_name) ==
  LET Agree(a, b) ==
        \A k \in 1 .. (IF Len(a) < Len(b) THEN Len(a) ELSE Len(b)) : a[k] = b[k]
      hits == { i \in 1 .. Len(s.function_list) :
                  Agree(s.function[s.function_list[i]].function_name,
                        function_name) }
  IN  IF hits = {} THEN NULL ELSE s.function_list[Min(hits)]

\* the walk of server->function_list: size and bytes must both agree
function_find(s, function_name) ==
  LET hits == { i \in 1 .. Len(s.function_list) :
                  /\ Len(s.function[s.function_list[i]].function_name)
                       = Len(function_name)
                  /\ s.function[s.function_list[i]].function_name
                       = function_name }
  IN  IF hits = {} THEN NULL ELSE s.function_list[Min(hits)]

\* mem: whether the allocations of a new function succeed
gearman_server_function_get(s, function_name, mem) ==
  LET found == function_find(s, function_name)
  IN  IF found # NULL THEN [st |-> s, function |-> found]
      ELSE IF ~mem THEN [st |-> s, function |-> NULL]
      ELSE gearman_server_function_create(s, function_name)

(***************************************************************************)
(* server_job.c: lookup by unique key or by workload.                      *)
(***************************************************************************)
\* a test that does not compare the stored unique
unique_match_key_only(s, j, unique_key, server_function, unique, data_size) ==
  IF data_size = 0
  THEN /\ s.job[j].function = server_function
       /\ s.job[j].unique_key = unique_key
  ELSE /\ s.job[j].function = server_function
       /\ s.job[j].unique_key = unique_key
       /\ Len(s.job[j].data) = data_size
       /\ s.job[j].data = unique

\* a test that does not compare the function
unique_match_any_function(s, j, unique_key, server_function, unique, data_size) ==
  IF data_size = 0
  THEN /\ s.job[j].unique_key = unique_key
       /\ s.job[j].unique = unique
  ELSE /\ s.job[j].unique_key = unique_key
       /\ Len(s.job[j].data) = data_size
       /\ s.job[j].data = unique

\* the test of one chain entry; data_size = 0 compares the stored unique
\* (strcmp), otherwise unique points to the workload (size and memcmp)
unique_match(s, j, unique_key, server_function, unique, data_size) ==
  IF data_size = 0
  THEN /\ s.job[j].function = server_function
       /\ s.job[j].unique_key = unique_key
       /\ s.job[j].unique = unique
  ELSE /\ s.job[j].function = server_function
       /\ s.job[j].unique_key = unique_key
       /\ Len(s.job[j].data) = data_size
       /\ s.job[j].data = unique

_server_job_get_unique(s, unique_key, server_function, unique, data_size) ==
  LET chain == Bucket(s.unique_hash, U32Mod(unique_key, GEARMAN_JOB_HASH_SIZE))
      hits == { i \in 1 .. Len(chain) :
                  unique_match(s, chain[i], unique_key, server_function,
                               unique, data_size) }
  IN  IF hits = {} THEN NULL ELSE chain[Min(hits)]

\* a lookup that never searches by workload
job_add_lookup_no_data(s, server_function, unique, data, uninit) ==
  IF Len(unique) = 0 THEN [key |-> uninit, job |-> NULL]
  ELSE IF Len(unique) = 1 /\ unique[1] = 45
  THEN IF Len(data) = 0 THEN [key |-> U32Zero, job |-> NULL]
       ELSE [key |-> _server_job_hash(data), job |-> NULL]
  ELSE [ key |-> _server_job_hash(unique),
         job |-> _server_job_get_unique(s, _server_job_hash(unique),
                                        server_function, unique, 0) ]

\* a lookup that searches for the empty unique like for any other
job_add_lookup_empty(s, server_function, unique, data, uninit) ==
  IF Len(unique) = 1 /\ unique[1] = 45
  THEN IF Len(data) = 0 THEN [key |-> U32Zero, job |-> NULL]
       ELSE [ key |-> _server_job_hash(data),
              job |-> _server_job_get_unique(s, _server_job_hash(data),
                                             server_function, data, Len(data)) ]
  ELSE [ key |-> _server_job_hash(unique),
         job |-> _server_job_get_unique(s, _server_job_hash(unique),
                                        server_function, unique, 0) ]

\* gearman_server_job_add, lines 66-92: which key, and which existing job.
\* With an empty unique the local variable key is never assigned: it is
\* stored in the job as whatever value uninit holds.
job_add_lookup(s, server_function, unique, data, uninit) ==
  IF Len(unique) = 0 THEN [key |-> uninit, job |-> NULL]
  ELSE IF Len(unique) = 1 /\ unique[1] = 45
  THEN IF Len(data) = 0 THEN [key |-> U32Zero, job |-> NULL]
       ELSE [ key |-> _server_job_hash(data),
              job |-> _server_job_get_unique(s, _server_job_hash(data),
                                             server_function, data, Len(data)) ]
  ELSE [ key |-> _server_job_hash(unique),
         job |-> _server_job_get_unique(s, _server_job_hash(unique),
                                        server_function, unique, 0) ]

\* gearman_server_job_get: lookup by job handle
gearman_server_job_get(s, job_handle) ==
  LET key == _server_job_hash(job_handle)
      chain == Bucket(s.job_hash, U32Mod(key, GEARMAN_JOB_HASH_SIZE))
      hits == { i \in 1 .. Len(chain) :
                  /\ s.job[chain[i]].job_handle_key = key
                  /\ s.job[chain[i]].job_handle = job_handle }
  IN  IF hits = {} THEN NULL ELSE chain[Min(hits)]

(***************************************************************************)
(* gearman_server_job_free                                                 *)
(***************************************************************************)
\* the client records of a job's client list are freed with the job
free_job_clients(s, j) ==
  [s EXCEPT !.client = [c \in (DOMAIN @) \ Range(s.job[j].client_list) |-> @[c]]]

\* a free that leaves job_total of the function as it is
gearman_server_job_free_keep_total(s, j) ==
  [s EXCEPT !.unique_hash = GEARMAN_HASH_DEL(@, U32Mod(s.job[j].unique_key,
                                             GEARMAN_JOB_HASH_SIZE), j),
            !.unique_count = @ - 1,
            !.job_hash = GEARMAN_HASH_DEL(@, U32Mod(s.job[j].job_handle_key,
                                          GEARMAN_JOB_HASH_SIZE), j),
            !.job_count = @ - 1,
            !.job = MapDel(@, j),
            !.client = [c \in (DOMAIN @) \ Range(s.job[j].client_list) |-> @[c]]]

gearman_server_job_free(s, j) ==
  LET sj == s.job[j]
      f == sj.function
      s1 == [s EXCEPT !.function[f].job_running =
                         IF sj.worker # NoWorker THEN @ - 1 ELSE @,
                      !.function[f].job_total = @ - 1]
      s2 == free_job_clients(s1, j)
      s3 == IF sj.worker # NoWorker /\ sj.worker \in DOMAIN s2.worker
            THEN [s2 EXCEPT !.worker[sj.worker].job = NULL]
            ELSE s2
  IN  [s3 EXCEPT
         !.unique_hash = GEARMAN_HASH_DEL(@, U32Mod(sj.unique_key,
                                          GEARMAN_JOB_HASH_SIZE), j),
         !.unique_count = @ - 1,
         !.job_hash = GEARMAN_HASH_DEL(@, U32Mod(sj.job_handle_key,
                                       GEARMAN_JOB_HASH_SIZE), j),
         !.job_count = @ - 1,
         !.job = MapDel(@, j)]

(***************************************************************************)
(* gearman_server_job_queue                                                *)
(***************************************************************************)
\* a loop that queues a NOOP for every worker of the function
RECURSIVE queue_noop_all(_, _, _, _)
queue_noop_all(s, worker_list, i, packets) ==
  IF i > Len(worker_list) THEN [st |-> s, ret |-> GEARMAN_SUCCESS]
  ELSE IF packets = 0
  THEN [st |-> s, ret |-> GEARMAN_MEMORY_ALLOCATION_FAILURE]
  ELSE queue_noop_all([s EXCEPT !.con[worker_list[i][1]].noop_queued = TRUE,
                                !.con[worker_list[i][1]].io_noop = @ + 1],
                      worker_list, i + 1, packets - 1)

\* a loop that sets noop_queued before it asks for the packet
RECURSIVE queue_noop_flag_first(_, _, _, _)
queue_noop_flag_first(s, worker_list, i, packets) ==
  IF i > Len(worker_list) THEN [st |-> s, ret |-> GEARMAN_SUCCESS]
  ELSE IF ~s.con[worker_list[i][1]].noop_queued
          /\ ~s.con[worker_list[i][1]].sleeping
  THEN queue_noop_flag_first(s, worker_list, i + 1, packets)
  ELSE IF packets = 0
  THEN [st |-> [s EXCEPT !.con[worker_list[i][1]].noop_queued = TRUE],
        ret |-> GEARMAN_MEMORY_ALLOCATION_FAILURE]
  ELSE queue_noop_flag_first(
         [s EXCEPT !.con[worker_list[i][1]].noop_queued = TRUE,
                   !.con[worker_list[i][1]].io_noop = @ + 1],
         worker_list, i + 1, packets - 1)

\* the loop that queues a NOOP for the workers of the function; packets is
\* the number of packets gearman_server_io_packet_add can still allocate
RECURSIVE queue_noop(_, _, _, _)
queue_noop(s, worker_list, i, packets) ==
  IF i > Len(worker_list) THEN [st |-> s, ret |-> GEARMAN_SUCCESS]
  ELSE LET c == worker_list[i][1]
       IN  IF ~s.con[c].noop_queued /\ ~s.con[c].sleeping
           THEN queue_noop(s, worker_list, i + 1, packets)
           ELSE IF packets = 0
           THEN [st |-> s, ret |-> GEARMAN_MEMORY_ALLOCATION_FAILURE]
           ELSE queue_noop([s EXCEPT !.con[c].noop_queued = TRUE,
                                     !.con[c].io_noop = @ + 1],
                           worker_list, i + 1, packets - 1)

\* the job goes to the head of the list of its priority
queue_append_head(s, j) ==
  LET f == s.job[j].function
      p == s.job[j].priority
      s1 == [s EXCEPT !.job[j].function_next = s.function[f].job_list[p],
                      !.function[f].job_list[p] = j]
  IN  [s1 EXCEPT !.function[f].job_end[p] =
                    IF s.function[f].job_list[p] = NULL THEN j ELSE @,
                 !.function[f].job_count = @ + 1]

\* an append that leaves job_count as it was
queue_append_uncounted(s, j) ==
  [s EXCEPT !.function[s.job[j].function].job_list[s.job[j].priority] =
               IF @ = NULL THEN j ELSE @,
            !.function[s.job[j].function].job_end[s.job[j].priority] = j,
            !.job = [k \in DOMAIN @ |->
                       IF /\ k = s.function[s.job[j].function].job_end[s.job[j].priority]
                          /\ s.function[s.job[j].function].job_list[s.job[j].priority] # NULL
                       THEN [@[k] EXCEPT !.function_next = j] ELSE @[k]]]

\* lines 390-399: the job goes to the end of the list of its priority
queue_append(s, j) ==
  LET f == s.job[j].function
      p == s.job[j].priority
      s1 == IF s.function[f].job_list[p] = NULL
            THEN [s EXCEPT !.function[f].job_list[p] = j]
            ELSE IF s.function[f].job_end[p] \in DOMAIN s.job
            THEN [s EXCEPT !.job[s.function[f].job_end[p]].function_next = j]
            ELSE s
  IN  [s1 EXCEPT !.function[f].job_end[p] = j,
                 !.function[f].job_count = @ + 1]

\* the job goes back with the progress it had
job_queue_keep_progress(s, j, packets) ==
  LET f == s.job[j].function
      s1 == IF s.job[j].worker # NoWorker
            THEN [s EXCEPT !.function[f].job_running = @ - 1,
                           !.job[j].function_next = NULL]
            ELSE s
      s2 == [s1 EXCEPT !.job[j].worker = NoWorker]
      n == queue_noop(s2, s2.function[f].worker_list, 1, packets)
  IN  IF n.ret # GEARMAN_SUCCESS THEN n
      ELSE [st |-> queue_append(n.st, j), ret |-> GEARMAN_SUCCESS]

gearman_server_job_queue(s, j, packets) ==
  LET f == s.job[j].function
      s1 == IF s.job[j].worker # NoWorker
            THEN [s EXCEPT !.function[f].job_running = @ - 1,
                           !.job[j].function_next = NULL]
            ELSE s
      s2 == [s1 EXCEPT !.job[j].worker = NoWorker,
                       !.job[j].numerator = 0,
                       !.job[j].denominator = 0]
      n == queue_noop(s2, s2.function[f].worker_list, 1, packets)
  IN  IF n.ret # GEARMAN_SUCCESS THEN n
      ELSE [st |-> queue_append(n.st, j), ret |-> GEARMAN_SUCCESS]

(***************************************************************************)
(* gearman_server_job_take and gearman_server_job_peek                     *)
(***************************************************************************)
\* the last priority whose list is not empty
take_priority_low(fn) ==
  LET hits == { p \in Priorities : fn.job_list[p] # NULL }
  IN  IF hits = {} THEN GEARMAN_JOB_PRIORITY_MAX ELSE Max(hits)

\* lines 330-335: the first priority whose list is not empty
take_priority(fn) ==
  LET hits == { p \in Priorities : fn.job_list[p] # NULL }
  IN  IF hits = {} THEN GEARMAN_JOB_PRIORITY_MAX ELSE Min(hits)

\* the last worker of the connection whose function has jobs
take_worker_last(s, c) ==
  LET wl == s.con[c].worker_list
      hits == { i \in 1 .. Len(wl) : s.function[wl[i][2]].job_count # 0 }
  IN  IF hits = {} THEN NoWorker ELSE wl[Max(hits)]

\* lines 320-325: the first worker of the connection whose function has jobs
take_worker(s, c) ==
  LET wl == s.con[c].worker_list
      hits == { i \in 1 .. Len(wl) : s.function[wl[i][2]].job_count # 0 }
  IN  IF hits = {} THEN NoWorker ELSE wl[Min(hits)]

\* an unlink that leaves job_count as it was
take_unlink_keep_count(s, w, priority) ==
  [s EXCEPT !.function[w[2]].job_list[priority] =
               s.job[s.function[w[2]].job_list[priority]].function_next,
            !.function[w[2]].job_end[priority] =
               IF @ = s.function[w[2]].job_list[priority] THEN NULL ELSE @,
            !.job[s.function[w[2]].job_list[priority]].worker = w,
            !.worker[w].job = s.function[w[2]].job_list[priority],
            !.function[w[2]].job_running = @ + 1]

\* lines 337-345: unlink the head of the list and hand it to the worker
take_unlink(s, w, priority) ==
  LET f == w[2]
      j == s.function[f].job_list[priority]
  IN  [s EXCEPT !.function[f].job_list[priority] = s.job[j].function_next,
                !.function[f].job_end[priority] = IF @ = j THEN NULL ELSE @,
                !.function[f].job_count = @ - 1,
                !.job[j].worker = w,
                !.worker[w].job = j,
                !.function[f].job_running = @ + 1]

\* fault: job_list[GEARMAN_JOB_PRIORITY_MAX] is read (job_count says there is
\* a job and every list is empty); the call is then outside defined behaviour
RECURSIVE gearman_server_job_take(_, _)
gearman_server_job_take(s, c) ==
  LET w == take_worker(s, c)
  IN  IF w = NoWorker THEN [st |-> s, job |-> NULL, fault |-> FALSE]
      ELSE LET priority == take_priority(s.function[w[2]])
           IN  IF priority = GEARMAN_JOB_PRIORITY_MAX
               THEN [st |-> s, job |-> NULL, fault |-> TRUE]
               ELSE LET j == s.function[w[2]].job_list[priority]
                        s1 == take_unlink(s, w, priority)
                    IN  IF GEARMAN_SERVER_JOB_IGNORE \in s.job[j].options
                        THEN gearman_server_job_take(
                               gearman_server_job_free(s1, j), c)
                        ELSE [st |-> s1, job |-> j, fault |-> FALSE]

\* a scan that stops at the last worker whose function has a job listed
peek_head_last(s, c) ==
  LET wl == s.con[c].worker_list
      hits == { i \in 1 .. Len(wl) :
                  /\ s.function[wl[i][2]].job_count # 0
                  /\ take_priority(s.function[wl[i][2]])
                       # GEARMAN_JOB_PRIORITY_MAX }
  IN  IF hits = {} THEN << >>
      ELSE << wl[Max(hits)], take_priority(s.function[wl[Max(hits)][2]]) >>

\* lines 284-308: the first worker with job_count # 0 and a list that is not
\* empty, as <<worker, priority>>
peek_head(s, c) ==
  LET wl == s.con[c].worker_list
      hits == { i \in 1 .. Len(wl) :
                  /\ s.function[wl[i][2]].job_count # 0
                  /\ take_priority(s.function[wl[i][2]])
                       # GEARMAN_JOB_PRIORITY_MAX }
  IN  IF hits = {} THEN << >>
      ELSE << wl[Min(hits)], take_priority(s.function[wl[Min(hits)][2]]) >>

\* a peek that hands out the head of the list whatever its flags
peek_any_head(s, c) ==
  IF peek_head(s, c) = << >> THEN [st |-> s, job |-> NULL, fault |-> FALSE]
  ELSE [ st |-> s, fault |-> FALSE,
         job |-> s.function[peek_head(s, c)[1][2]].job_list[peek_head(s, c)[2]] ]

RECURSIVE gearman_server_job_peek(_, _)
gearman_server_job_peek(s, c) ==
  LET h == peek_head(s, c)
  IN  IF h = << >> THEN [st |-> s, job |-> NULL, fault |-> FALSE]
      ELSE LET j == s.function[h[1][2]].job_list[h[2]]
           IN  IF GEARMAN_SERVER_JOB_IGNORE \in s.job[j].options
               THEN LET s1 == [s EXCEPT !.job[j].options =
                                          @ \ {GEARMAN_SERVER_JOB_IGNORE}]
                        t == gearman_server_job_take(s1, c)
                    IN  IF t.job = NULL
                        THEN [st |-> t.st, job |-> NULL, fault |-> TRUE]
                        ELSE gearman_server_job_peek(
                               gearman_server_job_free(t.st, t.job), c)
               ELSE [st |-> s, job |-> j, fault |-> FALSE]

(***************************************************************************)
(* The persistent queue adapter (gearman->queue_*_fn): the records it      *)
(* holds are queue.records, the functions installed are queue.fns.         *)
(***************************************************************************)
\* queue.calls: the operations of the adapter the latest step invoked, in
\* order, add and flush with what they returned
queue_call(s, call) == [s EXCEPT !.queue.calls = Append(@, call)]

\* add: the record is kept when the adapter reports success
queue_add_fn(s, unique, function_name, data, priority, ret) ==
  LET s1 == queue_call(s, << "add", unique, function_name, ret >>)
  IN  IF ret # GEARMAN_SUCCESS THEN s1
      ELSE [s1 EXCEPT !.queue.records =
              Append(@, [ unique |-> unique, function_name |-> function_name,
                          data |-> data, priority |-> priority ])]

queue_flush_fn(s, ret) == queue_call(s, << "flush", ret >>)

queue_done_fn(s, unique, function_name) ==
  [queue_call(s, << "done", unique, function_name >>)
     EXCEPT !.queue.records =
       SelectSeq(@, LAMBDA r : ~(r.unique = unique
                                 /\ r.function_name = function_name))]

(***************************************************************************)
(* gearman_server_job_add                                                  *)
(***************************************************************************)
\* a limit that admits one job more
queue_full_above(fn) == fn.max_queue_size > 0 /\ fn.job_total > fn.max_queue_size

\* lines 96-97
queue_full(fn) == fn.max_queue_size > 0 /\ fn.job_total >= fn.max_queue_size

\* a call that leaves the client unattached
job_add_client_none(s, j, server_client) == s

\* lines 186-190
job_add_client(s, j, server_client) ==
  IF server_client = NULL THEN s
  ELSE [s EXCEPT !.client[server_client].job = j,
                 !.job[j].client_list = << server_client >> \o @]

\* lines 103-131: the new job, counted, named and put in both hash tables.
\* The record is named by job_alloc, the handle comes from the counter.
job_add_new(s, f, unique, data, priority, key) ==
  LET j == s.job_alloc
      job_handle == JobHandle(s.job_handle_count)
      rec == [ job_handle |-> job_handle,
               job_handle_key |-> _server_job_hash(job_handle),
               unique |-> snprintf(GEARMAN_UNIQUE_SIZE, unique),
               unique_key |-> key,
               function |-> f, priority |-> priority, data |-> data,
               options |-> {}, worker |-> NoWorker, client_list |-> << >>,
               function_next |-> NULL, numerator |-> 0, denominator |-> 0 ]
  IN  [s EXCEPT
         !.function[f].job_total = @ + 1,
         !.job_handle_count = U32Add(@, U32One),
         !.job_alloc = @ + 1,
         !.job = MapPut(@, j, rec),
         !.unique_hash = GEARMAN_HASH_ADD(@, U32Mod(key, GEARMAN_JOB_HASH_SIZE), j),
         !.unique_count = @ + 1,
         !.job_hash = GEARMAN_HASH_ADD(@, U32Mod(rec.job_handle_key,
                                                 GEARMAN_JOB_HASH_SIZE), j),
         !.job_count = @ + 1]

\* a creation that never hands the job to the adapter
job_add_persist_never(s, j, function_name, data, priority, server_client, nd) ==
  [st |-> s, ret |-> GEARMAN_SUCCESS]

\* lines 133-164: -> [st, ret]; ret # SUCCESS after the job was freed again.
\* nd.q_add and nd.q_flush are what the adapter's add and flush return.
job_add_persist(s, j, function_name, data, priority, server_client, nd) ==
  IF GEARMAN_SERVER_QUEUE_REPLAY \in s.options
  THEN [ st |-> [s EXCEPT !.job[j].options = @ \cup {GEARMAN_SERVER_JOB_QUEUED}],
         ret |-> GEARMAN_SUCCESS ]
  ELSE IF server_client = NULL /\ "add" \in s.queue.fns
  THEN LET Added(s1) ==
             IF nd.q_add # GEARMAN_SUCCESS
             THEN [st |-> gearman_server_job_free(s1, j), ret |-> nd.q_add]
             ELSE IF "flush" \notin s.queue.fns
             THEN [ st |-> [s1 EXCEPT !.job[j].options =
                                       @ \cup {GEARMAN_SERVER_JOB_QUEUED}],
                    ret |-> GEARMAN_SUCCESS ]
             ELSE IF nd.q_flush # GEARMAN_SUCCESS
             THEN [ st |-> gearman_server_job_free(queue_flush_fn(s1, nd.q_flush), j),
                    ret |-> nd.q_flush ]
             ELSE [ st |-> [queue_flush_fn(s1, nd.q_flush) EXCEPT !.job[j].options =
                                       @ \cup {GEARMAN_SERVER_JOB_QUEUED}],
                    ret |-> GEARMAN_SUCCESS ]
       IN  Added(queue_add_fn(s, s.job[j].unique, function_name, data,
                              priority, nd.q_add))
  ELSE [st |-> s, ret |-> GEARMAN_SUCCESS]

\* lines 166-181: -> [st, ret]
job_add_queue(s, j, server_client, nd) ==
  LET q == gearman_server_job_queue(s, j, nd.packets)
  IN  IF q.ret = GEARMAN_SUCCESS THEN q
      ELSE LET s1 == IF server_client = NULL /\ "done" \in s.queue.fns
                     THEN queue_done_fn(q.st, q.st.job[j].unique,
                            q.st.function[q.st.job[j].function].function_name)
                     ELSE q.st
           IN  [st |-> gearman_server_job_free(s1, j), ret |-> q.ret]

\* lines 94-182, the branch that creates a job
job_add_create(s, f, function_name, unique, data, priority, server_client, key, nd) ==
  IF queue_full(s.function[f])
  THEN [st |-> s, ret |-> GEARMAN_JOB_QUEUE_FULL, job |-> NULL]
  ELSE IF ~nd.mem_job
  THEN [st |-> s, ret |-> GEARMAN_MEMORY_ALLOCATION_FAILURE, job |-> NULL]
  ELSE LET j == s.job_alloc
           Queued(q) ==
             IF q.ret # GEARMAN_SUCCESS
             THEN [st |-> q.st, ret |-> q.ret, job |-> NULL]
             ELSE [ st |-> job_add_client(q.st, j, server_client),
                    ret |-> GEARMAN_SUCCESS, job |-> j ]
           Persisted(p) ==
             IF p.ret # GEARMAN_SUCCESS
             THEN [st |-> p.st, ret |-> p.ret, job |-> NULL]
             ELSE Queued(job_add_queue(p.st, j, server_client, nd))
       IN  Persisted(job_add_persist(
                       job_add_new(s, f, unique, data, priority, key),
                       j, function_name, data, priority, server_client, nd))

\* nd: the outcomes the call does not decide: mem_function and mem_job (the
\* allocations succeed), uninit (the value of the unassigned key), packets,
\* q_add, q_flush
gearman_server_job_add(s, function_name, unique, data, priority, server_client, nd) ==
  LET Looked(g, look) ==
        IF look.job = NULL
        THEN job_add_create(g.st, g.function, function_name, unique,
                            data, priority, server_client, look.key, nd)
        ELSE [ st |-> job_add_client(g.st, look.job, server_client),
               ret |-> GEARMAN_JOB_EXISTS, job |-> look.job ]
      Got(g) ==
        IF g.function = NULL
        THEN [st |-> g.st, ret |-> GEARMAN_MEMORY_ALLOCATION_FAILURE, job |-> NULL]
        ELSE Looked(g, job_add_lookup(g.st, g.function, unique, data, nd.uninit))
  IN  Got(gearman_server_function_get(s, function_name, nd.mem_function))

(***************************************************************************)
(* Callers of the job interface: the protocol handlers of the connection   *)
(* state machine, the worker and client records they manage.               *)
(***************************************************************************)
\* gearman_server_client_add: a client record of connection c
gearman_server_client_add(s, cl, c) ==
  [s EXCEPT !.client = MapPut(@, cl, [con |-> c, job |-> NULL])]

\* gearman_server_client_free (the client disconnects): a job of the client
\* that is still queued is marked IGNORE, and the client leaves its client
\* list
gearman_server_client_free(s, cl) ==
  LET j == s.client[cl].job
      s1 == IF j = NULL \/ j \notin DOMAIN s.job THEN s
            ELSE [s EXCEPT
                    !.job[j].client_list = SeqDel(@, cl),
                    !.job[j].options =
                       IF s.job[j].worker = NoWorker
                       THEN @ \cup {GEARMAN_SERVER_JOB_IGNORE} ELSE @]
  IN  [s1 EXCEPT !.client = MapDel(@, cl)]

\* gearman_server_worker_add (CAN_DO): connection c declares the function
gearman_server_worker_add(s, c, function_name) ==
  LET g == gearman_server_function_get(s, function_name, TRUE)
      w == << c, g.function >>
  IN  [g.st EXCEPT !.worker = MapPut(@, w, [job |-> NULL]),
                   !.con[c].worker_list = Append(@, w),
                   !.function[g.function].worker_list = Append(@, w)]

\* gearman_server_worker_free (CANT_DO, connection loss): a job the worker
\* holds is queued again, then the worker leaves both lists
gearman_server_worker_free(s, w, packets) ==
  LET s1 == IF s.worker[w].job # NULL
            THEN gearman_server_job_queue(s, s.worker[w].job, packets).st
            ELSE s
  IN  [s1 EXCEPT !.worker = MapDel(@, w),
                 !.con[w[1]].worker_list = SeqDel(@, w),
                 !.function[w[2]].worker_list = SeqDel(@, w)]

\* GRAB_JOB: the connection is awake again and may be sent a NOOP again;
\* io_noop counts the NOOP packets put on the connection since this request
grab_job(s, c) ==
  gearman_server_job_take(
    [s EXCEPT !.con[c].sleeping = FALSE, !.con[c].noop_queued = FALSE,
              !.con[c].io_noop = 0], c)

\* WORK_COMPLETE / WORK_FAIL: the record leaves the persistent queue and the
\* job is freed
work_complete(s, j) ==
  LET s1 == IF GEARMAN_SERVER_JOB_QUEUED \in s.job[j].options
               /\ "done" \in s.queue.fns
            THEN queue_done_fn(s, s.job[j].unique,
                               s.function[s.job[j].function].function_name)
            ELSE s
  IN  gearman_server_job_free(s1, j)

\* the admin command maxqueue
maxqueue(s, function_name, size) ==
  LET g == gearman_server_function_get(s, function_name, TRUE)
  IN  [g.st EXCEPT !.function[g.function].max_queue_size = size]

(***************************************************************************)
(* The outcomes a call does not decide.                                    *)
(***************************************************************************)
NdOk(k) ==
  [ mem_function |-> TRUE, mem_job |-> TRUE, uninit |-> k,
    packets |-> MaxCons, q_add |-> GEARMAN_SUCCESS, q_flush |-> GEARMAN_SUCCESS ]

\* every outcome with at most one failure
NdSet ==
  { NdOk(k) : k \in UninitKeys }
  \cup { [NdOk(U32Zero) EXCEPT !.mem_function = FALSE],
         [NdOk(U32Zero) EXCEPT !.mem_job = FALSE],
         [NdOk(U32Zero) EXCEPT !.q_add = GEARMAN_QUEUE_ERROR],
         [NdOk(U32Zero) EXCEPT !.q_flush = GEARMAN_QUEUE_ERROR] }
  \cup { [NdOk(U32Zero) EXCEPT !.packets = n] : n \in 0 .. (MaxCons - 1) }

(***************************************************************************)
(* gearmand_con.c: the connection structures (gearmand_con_st), the        *)
(* threads' lists of connections, and the handoff of a new connection from *)
(* the thread that accepts it to the I/O thread that runs it.              *)
(* The lists are the chains of next and prev of the structures, as         *)
(* GEARMAN_LIST_ADD and GEARMAN_LIST_DEL build them. Where a list is       *)
(* written without the lock, every access to the memory that two threads   *)
(* share is a step of its own.                                             *)
(***************************************************************************)
\* the thread that accepts connections and calls gearmand_con_create
Main == 0

\* no thread holds the lock
Unlocked == -1

Threads == 1 .. MaxThreads

Dcons == 1 .. MaxDcon

\* gearmand->thread_list: one thread when gearmand->threads is 0
ThreadList(g) == [i \in 1 .. (IF g.threads = 0 THEN 1 ELSE g.threads) |-> i]

\* a gearmand_con_st that is not allocated
NoDcon == [thread |-> NULL, fd |-> 0, next |-> NULL, prev |-> NULL, live |-> FALSE]

\* the variables of gearmand_con.c at startup, without I/O threads
ConInit ==
  /\ gearmand = [ threads |-> 0, thread_add_next |-> NULL,
                  free_dcon_list |-> NULL, free_dcon_count |-> 0,
                  accepted |-> 0 ]
  /\ thread = [t \in Threads |->
                 [ dcon_add_list |-> NULL, dcon_add_count |-> U32Zero,
                   dcon_list |-> NULL, dcon_count |-> 0,
                   free_dcon_list |-> NULL, free_dcon_count |-> 0,
                   lock |-> Unlocked, wakeup |-> FALSE ]]
  /\ dcon = [d \in Dcons |-> NoDcon]
  /\ pc = [p \in {Main} \cup Threads |->
             [at |-> "idle", dcon |-> NULL, thread |-> NULL, count |-> U32Zero,
              head |-> NULL, test |-> FALSE, free |-> NULL]]
  /\ assigned = << >>

conVars == << gearmand, thread, dcon, pc, assigned >>

brokerVars ==
  << function_list, function, job, job_handle_count, job_alloc, job_hash,
     job_count, unique_hash, unique_count, con, worker, client, options, queue,
     last, submitted, requeued, fifo, reaped, issued >>

\* the structures of the list with head h in memory m, by next; n bounds the
\* walk, since a damaged chain can come back to itself
RECURSIVE Chain(_, _, _)
Chain(m, h, n) ==
  IF h = NULL \/ n = 0 THEN << >>
  ELSE << h >> \o Chain(m, m[h].next, n - 1)

\* the set of structures on the list with head h
OnChain(m, h) == Range(Chain(m, h, MaxDcon))

\* GEARMAN_LIST_ADD without the count: the memory after obj is linked before
\* head h; the list is then obj
LIST_ADD(m, h, obj) ==
  [ (IF h # NULL THEN [m EXCEPT ![h].prev = obj] ELSE m)
      EXCEPT ![obj].next = h, ![obj].prev = NULL ]

\* GEARMAN_LIST_DEL, the list: obj->next when obj is the head
LIST_DEL_head(m, h, obj) == IF h = obj THEN m[obj].next ELSE h

\* GEARMAN_LIST_DEL, the two neighbours of obj
LIST_DEL_prev(m, obj) ==
  IF m[obj].prev # NULL THEN [m EXCEPT ![m[obj].prev].next = m[obj].next]
  ELSE m

LIST_DEL_next(m, obj) ==
  IF m[obj].next # NULL THEN [m EXCEPT ![m[obj].next].prev = m[obj].prev]
  ELSE m

LIST_DEL(m, obj) == LIST_DEL_next(LIST_DEL_prev(m, obj), obj)

\* a process other than p holds structure d in a local variable
Held(d, p) ==
  \E q \in DOMAIN pc \ {p} : d \in {pc[q].dcon, pc[q].head, pc[q].free}

\* a list or a structure in use points to structure d
Linked(m, d) ==
  \/ \E e \in Dcons : e # d /\ m[e].live /\ d \in {m[e].next, m[e].prev}
  \/ d = gearmand.free_dcon_list
  \/ \E t \in Threads :
       d \in {thread[t].dcon_add_list, thread[t].dcon_list,
              thread[t].free_dcon_list}

\* what the memory of structure d can hold after process p called free(),
\* in the fields that a pointer left behind can still read: any thread, and
\* links that are as they were or cleared
AfterFree(m, d, p) ==
  { [thread |-> t, fd |-> 0, next |-> n, prev |-> v, live |-> FALSE] :
      t \in (IF Held(d, p) \/ Linked(m, d) THEN DOMAIN ThreadList(gearmand)
             ELSE {NULL}),
      n \in (IF Linked(m, d) THEN {m[d].next, NULL} ELSE {NULL}),
      v \in (IF Linked(m, d) THEN {m[d].prev, NULL} ELSE {NULL}) }

\* a thread that stays where it is
thread_add_stay(g) == g.thread_add_next

\* line 115: the thread after thread_add_next, NULL after the last
thread_add_advance(g) ==
  IF g.thread_add_next = Len(ThreadList(g)) THEN NULL
  ELSE g.thread_add_next + 1

\* lines 74-75: the thread the next connection goes to
thread_add_pick(g) ==
  IF g.thread_add_next = NULL THEN Head(ThreadList(g)) ELSE g.thread_add_next

\* gearmand_thread_wakeup(thread, GEARMAND_WAKEUP_CON)
gearmand_thread_wakeup(th, t) == [th EXCEPT ![t].wakeup = TRUE]

\* the program counter of process p goes to at
Goto(p, at) == pc' = [pc EXCEPT ![p].at = at]

\* gearmand starts n I/O threads (--threads n)
ThreadsCreate(n) ==
  /\ gearmand.threads = 0 /\ gearmand.accepted = 0
  /\ gearmand' = [gearmand EXCEPT !.threads = n]
  /\ UNCHANGED << thread, dcon, pc, assigned >>
  /\ UNCHANGED brokerVars

\* lines 58-62: the structure after memset, with the descriptor
NewDcon(fd) ==
  [thread |-> NULL, fd |-> fd, next |-> NULL, prev |-> NULL, live |-> TRUE]

\* gearmand_con_create, lines 45-81 up to the load of dcon_add_count:
\* ok is the result of gearman_server_con_add when there are no threads
ConCreate(ok) ==
  /\ pc[Main].at = "idle"
  /\ gearmand.accepted < MaxAccept
  /\ IF gearmand.free_dcon_count > 0
     THEN gearmand.free_dcon_list # NULL
     ELSE \E d \in Dcons : ~dcon[d].live
  /\ LET Create(d, g, m, t) ==
           IF g.threads = 0
           THEN /\ gearmand' = g
                /\ IF ok
                   THEN /\ dcon' = LIST_ADD([m EXCEPT ![d].thread = t],
                                            thread[t].dcon_list, d)
                        /\ thread' = [thread EXCEPT ![t].dcon_list = d,
                                                    ![t].dcon_count = @ + 1]
                        /\ assigned' = Append(assigned, t)
                   ELSE /\ \E r \in AfterFree(m, d, Main) : dcon' = [m EXCEPT ![d] = r]
                        /\ UNCHANGED << thread, assigned >>
                /\ pc' = pc
           ELSE /\ ok
                /\ gearmand' = [g EXCEPT !.thread_add_next = t]
                /\ dcon' = [m EXCEPT ![d].thread = t]
                /\ assigned' = Append(assigned, t)
                /\ pc' = [pc EXCEPT ![Main].dcon = d,
                                    ![Main].at =
                                       IF thread[t].dcon_add_count = U32Zero
                                       THEN "free_count" ELSE "lock"]
                /\ thread' = thread
         Reuse(d) ==
           Create(d,
                  [gearmand EXCEPT
                     !.free_dcon_list = LIST_DEL_head(dcon, @, d),
                     !.free_dcon_count = @ - 1,
                     !.accepted = @ + 1],
                  [LIST_DEL(dcon, d) EXCEPT ![d] = NewDcon(gearmand.accepted + 1)],
                  thread_add_pick(gearmand))
         Malloc(d) ==
           Create(d, [gearmand EXCEPT !.accepted = @ + 1],
                  [dcon EXCEPT ![d] = NewDcon(gearmand.accepted + 1)],
                  thread_add_pick(gearmand))
     IN  IF gearmand.free_dcon_count > 0
         THEN Reuse(gearmand.free_dcon_list)
         ELSE Malloc(Min({d \in Dcons : ~dcon[d].live}))
  /\ UNCHANGED brokerVars

\* line 81: the load of free_dcon_count
MainFreeCount ==
  /\ pc[Main].at = "free_count"
  /\ Goto(Main, IF thread[dcon[pc[Main].dcon].thread].free_dcon_count
                     < MaxThreadFree
                THEN "fast_test" ELSE "lock")
  /\ UNCHANGED << gearmand, thread, dcon, assigned >>
  /\ UNCHANGED brokerVars

\* line 83 without the lock, GEARMAN_LIST_ADD: the load of dcon_add_list for
\* the test
MainFastTest ==
  /\ pc[Main].at = "fast_test"
  /\ pc' = [pc EXCEPT ![Main].head =
                         thread[dcon[pc[Main].dcon].thread].dcon_add_list,
                      ![Main].at =
                         IF thread[dcon[pc[Main].dcon].thread].dcon_add_list
                              # NULL
                         THEN "fast_prev" ELSE "fast_next"]
  /\ UNCHANGED << gearmand, thread, dcon, assigned >>
  /\ UNCHANGED brokerVars

\* the value of dcon_add_list where the macro names it again: the one the
\* test loaded, kept in a register, or the one in memory now
MainListValue ==
  {pc[Main].head, thread[dcon[pc[Main].dcon].thread].dcon_add_list}

\* GEARMAN_LIST_ADD: dcon_add_list->prev= dcon. Through a NULL the process
\* ends.
MainFastPrev ==
  /\ pc[Main].at = "fast_prev"
  /\ \E h \in MainListValue \ {NULL} :
       dcon' = [dcon EXCEPT ![h].prev = pc[Main].dcon]
  /\ Goto(Main, "fast_next")
  /\ UNCHANGED << gearmand, thread, assigned >>
  /\ UNCHANGED brokerVars

\* GEARMAN_LIST_ADD: dcon->next= dcon_add_list, dcon->prev= NULL
MainFastNext ==
  /\ pc[Main].at = "fast_next"
  /\ \E h \in MainListValue :
       dcon' = [dcon EXCEPT ![pc[Main].dcon].next = h,
                            ![pc[Main].dcon].prev = NULL]
  /\ pc' = [pc EXCEPT ![Main].at = "fast_list", ![Main].head = NULL]
  /\ UNCHANGED << gearmand, thread, assigned >>
  /\ UNCHANGED brokerVars

\* GEARMAN_LIST_ADD: dcon_add_list= dcon
MainFastList ==
  /\ pc[Main].at = "fast_list"
  /\ thread' = [thread EXCEPT ![dcon[pc[Main].dcon].thread].dcon_add_list =
                                 pc[Main].dcon]
  /\ Goto(Main, "fast_load")
  /\ UNCHANGED << gearmand, dcon, assigned >>
  /\ UNCHANGED brokerVars

\* GEARMAN_LIST_ADD, dcon_add_count++: dcon->thread is read again, and the
\* load
MainFastLoad ==
  /\ pc[Main].at = "fast_load"
  /\ pc' = [pc EXCEPT ![Main].at = "fast_store",
                      ![Main].thread = dcon[pc[Main].dcon].thread,
                      ![Main].count =
                         thread[dcon[pc[Main].dcon].thread].dcon_add_count]
  /\ UNCHANGED << gearmand, thread, dcon, assigned >>
  /\ UNCHANGED brokerVars

\* GEARMAN_LIST_ADD, dcon_add_count++: the store
MainFastStore ==
  /\ pc[Main].at = "fast_store"
  /\ thread' = [thread EXCEPT ![pc[Main].thread].dcon_add_count =
                                 U32Add(pc[Main].count, U32One)]
  /\ pc' = [pc EXCEPT ![Main].at = "fast_wakeup", ![Main].count = U32Zero,
                      ![Main].thread = NULL]
  /\ UNCHANGED << gearmand, dcon, assigned >>
  /\ UNCHANGED brokerVars

\* lines 84 and 115: the wakeup, and the next thread
MainFastWakeup ==
  /\ pc[Main].at = "fast_wakeup"
  /\ thread' = gearmand_thread_wakeup(thread, dcon[pc[Main].dcon].thread)
  /\ gearmand' = [gearmand EXCEPT !.thread_add_next = thread_add_advance(gearmand)]
  /\ pc' = [pc EXCEPT ![Main].at = "idle", ![Main].dcon = NULL]
  /\ UNCHANGED << dcon, assigned >>
  /\ UNCHANGED brokerVars

\* line 88
MainLock ==
  /\ pc[Main].at = "lock"
  /\ thread[dcon[pc[Main].dcon].thread].lock = Unlocked
  /\ thread' = [thread EXCEPT ![dcon[pc[Main].dcon].thread].lock = Main]
  /\ Goto(Main, "locked_list")
  /\ UNCHANGED << gearmand, dcon, assigned >>
  /\ UNCHANGED brokerVars

\* line 90, with the lock: GEARMAN_LIST_ADD up to dcon_add_list= dcon
MainLockedList ==
  /\ pc[Main].at = "locked_list"
  /\ dcon' = LIST_ADD(dcon, thread[dcon[pc[Main].dcon].thread].dcon_add_list,
                      pc[Main].dcon)
  /\ thread' = [thread EXCEPT ![dcon[pc[Main].dcon].thread].dcon_add_list =
                                 pc[Main].dcon]
  /\ Goto(Main, "locked_count")
  /\ UNCHANGED << gearmand, assigned >>
  /\ UNCHANGED brokerVars

\* lines 90-96, with the lock: dcon_add_count++, and the thread's free
\* structures are taken
MainLockedCount ==
  /\ pc[Main].at = "locked_count"
  /\ thread' = [thread EXCEPT
                  ![dcon[pc[Main].dcon].thread].dcon_add_count =
                     U32Add(@, U32One),
                  ![dcon[pc[Main].dcon].thread].free_dcon_list = NULL,
                  ![dcon[pc[Main].dcon].thread].free_dcon_count = 0]
  /\ pc' = [pc EXCEPT ![Main].at = "unlock",
                      ![Main].free =
                         thread[dcon[pc[Main].dcon].thread].free_dcon_list]
  /\ UNCHANGED << gearmand, dcon, assigned >>
  /\ UNCHANGED brokerVars

\* line 98
MainUnlock ==
  /\ pc[Main].at = "unlock"
  /\ thread' = [thread EXCEPT ![dcon[pc[Main].dcon].thread].lock = Unlocked]
  /\ Goto(Main, "first")
  /\ UNCHANGED << gearmand, dcon, assigned >>
  /\ UNCHANGED brokerVars

\* lines 103-104: the wakeup when the connection is the first of the list
MainFirst ==
  /\ pc[Main].at = "first"
  /\ thread' = IF thread[dcon[pc[Main].dcon].thread].dcon_add_count = U32One
               THEN gearmand_thread_wakeup(thread, dcon[pc[Main].dcon].thread)
               ELSE thread
  /\ pc' = [pc EXCEPT ![Main].at = "move", ![Main].dcon = NULL]
  /\ UNCHANGED << gearmand, dcon, assigned >>
  /\ UNCHANGED brokerVars

\* lines 107-112, one turn of the loop: the head of the structures taken
\* goes to gearmand's list
MainMove ==
  /\ pc[Main].at = "move" /\ pc[Main].free # NULL
  /\ dcon' = LIST_ADD(LIST_DEL(dcon, pc[Main].free),
                      gearmand.free_dcon_list, pc[Main].free)
  /\ gearmand' = [gearmand EXCEPT !.free_dcon_list = pc[Main].free,
                                  !.free_dcon_count = @ + 1]
  /\ pc' = [pc EXCEPT ![Main].free = dcon[pc[Main].free].next]
  /\ UNCHANGED << thread, assigned >>
  /\ UNCHANGED brokerVars

\* line 115 after the loop: the next thread
MainNext ==
  /\ pc[Main].at = "move" /\ pc[Main].free = NULL
  /\ gearmand' = [gearmand EXCEPT !.thread_add_next = thread_add_advance(gearmand)]
  /\ Goto(Main, "idle")
  /\ UNCHANGED << thread, dcon, assigned >>
  /\ UNCHANGED brokerVars

\* the thread reads a GEARMAND_WAKEUP_CON from its pipe and calls
\* gearmand_con_check_queue: lines 155-156, the load of dcon_add_count
CheckQueue(t) ==
  /\ pc[t].at = "idle"
  /\ thread[t].wakeup
  /\ thread' = [thread EXCEPT ![t].wakeup = FALSE]
  /\ Goto(t, IF thread[t].dcon_add_count = U32Zero THEN "idle" ELSE "while")
  /\ UNCHANGED << gearmand, dcon, assigned >>
  /\ UNCHANGED brokerVars

\* line 160: the load of dcon_add_list
CqWhile(t) ==
  /\ pc[t].at = "while"
  /\ Goto(t, IF thread[t].dcon_add_list = NULL THEN "idle" ELSE "cq_lock")
  /\ UNCHANGED << gearmand, thread, dcon, assigned >>
  /\ UNCHANGED brokerVars

\* line 162
CqLock(t) ==
  /\ pc[t].at = "cq_lock"
  /\ thread[t].lock = Unlocked
  /\ thread' = [thread EXCEPT ![t].lock = t]
  /\ Goto(t, "cq_head")
  /\ UNCHANGED << gearmand, dcon, assigned >>
  /\ UNCHANGED brokerVars

\* line 163: dcon= thread->dcon_add_list
CqHead(t) ==
  /\ pc[t].at = "cq_head"
  /\ thread[t].dcon_add_list # NULL
  /\ pc' = [pc EXCEPT ![t].at = "cq_test",
                      ![t].dcon = thread[t].dcon_add_list]
  /\ UNCHANGED << gearmand, thread, dcon, assigned >>
  /\ UNCHANGED brokerVars

\* line 164, GEARMAN_LIST_DEL: the test of dcon_add_list == dcon
CqTest(t) ==
  /\ pc[t].at = "cq_test"
  /\ pc' = [pc EXCEPT ![t].at = "cq_del",
                      ![t].test = (thread[t].dcon_add_list = pc[t].dcon)]
  /\ UNCHANGED << gearmand, thread, dcon, assigned >>
  /\ UNCHANGED brokerVars

\* line 164, GEARMAN_LIST_DEL: dcon_add_list= dcon->next when the test found
\* dcon at the head
CqDel(t) ==
  /\ pc[t].at = "cq_del"
  /\ thread' = [thread EXCEPT ![t].dcon_add_list =
                                 IF pc[t].test THEN dcon[pc[t].dcon].next ELSE @]
  /\ pc' = [pc EXCEPT ![t].at = "cq_links", ![t].test = FALSE]
  /\ UNCHANGED << gearmand, dcon, assigned >>
  /\ UNCHANGED brokerVars

\* line 164, GEARMAN_LIST_DEL: the neighbours of dcon are linked to each
\* other
CqLinks(t) ==
  /\ pc[t].at = "cq_links"
  /\ dcon' = LIST_DEL(dcon, pc[t].dcon)
  /\ Goto(t, "cq_load")
  /\ UNCHANGED << gearmand, thread, assigned >>
  /\ UNCHANGED brokerVars

\* line 164, dcon_add_count--: the load
CqLoad(t) ==
  /\ pc[t].at = "cq_load"
  /\ pc' = [pc EXCEPT ![t].at = "cq_store",
                      ![t].count = thread[t].dcon_add_count]
  /\ UNCHANGED << gearmand, thread, dcon, assigned >>
  /\ UNCHANGED brokerVars

\* line 164, dcon_add_count--: the store, 32 bits wide
CqStore(t) ==
  /\ pc[t].at = "cq_store"
  /\ thread' = [thread EXCEPT ![t].dcon_add_count = U32Add(pc[t].count, U32Max)]
  /\ pc' = [pc EXCEPT ![t].at = "cq_unlock", ![t].count = U32Zero]
  /\ UNCHANGED << gearmand, dcon, assigned >>
  /\ UNCHANGED brokerVars

\* line 165
CqUnlock(t) ==
  /\ pc[t].at = "cq_unlock"
  /\ thread' = [thread EXCEPT ![t].lock = Unlocked]
  /\ Goto(t, "cq_con_add")
  /\ UNCHANGED << gearmand, dcon, assigned >>
  /\ UNCHANGED brokerVars

\* line 167, _con_add (lines 239-254): ok is the result of
\* gearman_server_con_add; with it the connection joins the thread's
\* dcon_list, without it the connection is closed and the structure freed
CqConAdd(t, ok) ==
  /\ pc[t].at = "cq_con_add"
  /\ IF ok
     THEN /\ dcon' = LIST_ADD(dcon, thread[t].dcon_list, pc[t].dcon)
          /\ thread' = [thread EXCEPT ![t].dcon_list = pc[t].dcon,
                                      ![t].dcon_count = @ + 1]
     ELSE /\ \E r \in AfterFree(dcon, pc[t].dcon, t) :
               dcon' = [dcon EXCEPT ![pc[t].dcon] = r]
          /\ thread' = thread
  /\ pc' = [pc EXCEPT ![t].at = "while", ![t].dcon = NULL]
  /\ UNCHANGED << gearmand, assigned >>
  /\ UNCHANGED brokerVars

\* gearmand_con_free, lines 122-137: the thread that runs the connection
\* takes it from dcon_list of dcon->thread and closes it; without I/O threads
\* the structure goes to gearmand's free list. free_dcon_count stays below
\* GEARMAN_MAX_FREE_SERVER_CON.
ConFree(t, d) ==
  /\ pc[t].at = "idle"
  /\ t \in DOMAIN ThreadList(gearmand)
  /\ d \in OnChain(dcon, thread[t].dcon_list)
  /\ dcon[d].live /\ dcon[d].fd # 0
  /\ thread' = [thread EXCEPT
                  ![dcon[d].thread].dcon_list = LIST_DEL_head(dcon, @, d),
                  ![dcon[d].thread].dcon_count = @ - 1]
  /\ IF gearmand.threads = 0
     THEN /\ dcon' = LIST_ADD([LIST_DEL(dcon, d) EXCEPT ![d].fd = 0],
                              gearmand.free_dcon_list, d)
          /\ gearmand' = [gearmand EXCEPT !.free_dcon_list = d,
                                          !.free_dcon_count = @ + 1]
          /\ pc' = pc
     ELSE /\ dcon' = [LIST_DEL(dcon, d) EXCEPT ![d].fd = 0]
          /\ gearmand' = gearmand
          /\ pc' = [pc EXCEPT ![t].at = "cf_lock", ![t].dcon = d]
  /\ UNCHANGED assigned
  /\ UNCHANGED brokerVars

\* line 141
CfLock(t) ==
  /\ pc[t].at = "cf_lock"
  /\ thread[dcon[pc[t].dcon].thread].lock = Unlocked
  /\ thread' = [thread EXCEPT ![dcon[pc[t].dcon].thread].lock = t]
  /\ Goto(t, "cf_add")
  /\ UNCHANGED << gearmand, dcon, assigned >>
  /\ UNCHANGED brokerVars

\* lines 142-143: the structure goes to the free list of dcon->thread
CfAdd(t) ==
  /\ pc[t].at = "cf_add"
  /\ dcon' = LIST_ADD(dcon, thread[dcon[pc[t].dcon].thread].free_dcon_list,
                      pc[t].dcon)
  /\ thread' = [thread EXCEPT
                  ![dcon[pc[t].dcon].thread].free_dcon_list = pc[t].dcon,
                  ![dcon[pc[t].dcon].thread].free_dcon_count = @ + 1,
                  ![dcon[pc[t].dcon].thread].lock = Unlocked]
  /\ pc' = [pc EXCEPT ![t].at = "idle", ![t].dcon = NULL]
  /\ UNCHANGED << gearmand, assigned >>
  /\ UNCHANGED brokerVars

(***************************************************************************)
(* History.                                                                *)
(***************************************************************************)
\* the latest call of add, take or peek: the connection, the arguments of
\* add, what the call returned
Call(op, c, args, ret, j, fault) ==
  [ op |-> op, con |-> c, args |-> args, ret |-> ret, job |-> j,
    fault |-> fault ]

NoCall == Call("none", 0, << >>, "", NULL, FALSE)

\* the step is committed: the state, and the history of the jobs still live
Step(s, call, args, queued, taken) ==
  /\ Commit(s)
  /\ UNCHANGED conVars
  /\ last' = call
  /\ reaped' = IF call.op \in {"take", "peek"}
               THEN DOMAIN job \ DOMAIN s.job ELSE {}
  /\ issued' = issued
               \cup { s.job[j].job_handle : j \in DOMAIN s.job \ DOMAIN job }
               \cup (IF s.job_alloc > job_alloc /\ job_alloc \notin DOMAIN s.job
                     THEN {JobHandle(job_handle_count)} ELSE {})
  /\ submitted' = [j \in DOMAIN s.job |->
                     IF j \in DOMAIN submitted THEN submitted[j] ELSE args]
  /\ requeued' = (requeued \cup (Range(queued) \cap DOMAIN job)) \cap DOMAIN s.job
  /\ fifo' = SelectSeq(fifo, LAMBDA k : /\ k \in DOMAIN s.job
                                        /\ k \notin taken
                                        /\ k \notin Range(queued)) \o queued

(***************************************************************************)
(* Initial state and actions.                                              *)
(***************************************************************************)
Init ==
  /\ function_list = << >>
  /\ function = << >>
  /\ job = << >>
  /\ job_handle_count = U32One
  /\ job_alloc = 1
  /\ job_hash = << >>
  /\ job_count = 0
  /\ unique_hash = << >>
  /\ unique_count = 0
  /\ con = [c \in Cons |-> [worker_list |-> << >>, noop_queued |-> FALSE,
                            sleeping |-> FALSE, io_noop |-> 0]]
  /\ worker = << >>
  /\ client = << >>
  /\ options = {}
  /\ queue = [fns |-> {}, records |-> << >>, calls |-> << >>]
  /\ last = NoCall
  /\ submitted = << >>
  /\ requeued = {}
  /\ fifo = << >>
  /\ reaped = {}
  /\ issued = {}
  /\ ConInit

\* SUBMIT_JOB*: foreground submissions register a client of connection c
SubmitJob(c, function_name, unique, data, priority, fg, nd) ==
  /\ fg => (1 .. MaxClients) \ DOMAIN client # {}
  /\ LET cl == IF fg THEN Min((1 .. MaxClients) \ DOMAIN client) ELSE NULL
         args == [ function_name |-> function_name, unique |-> unique,
                   data |-> data, priority |-> priority, with_client |-> fg ]
         Added(r) ==
           /\ r.st.job_alloc <= MaxJobs + 1
           /\ Step(IF fg /\ r.job = NULL
                   THEN gearman_server_client_free(r.st, cl) ELSE r.st,
                   Call("add", c, args, r.ret, r.job, FALSE), args,
                   IF r.ret = GEARMAN_SUCCESS THEN << r.job >> ELSE << >>, {})
     IN  Added(gearman_server_job_add(
                 IF fg THEN gearman_server_client_add(Server, cl, c) ELSE Server,
                 function_name, unique, data, priority, cl, nd))

GrabJob(c) ==
  LET r == grab_job(Server, c)
  IN  Step(r.st, Call("take", c, << >>, "", r.job, r.fault), << >>, << >>,
           IF r.job # NULL THEN {r.job} ELSE {})

JobPeek(c) ==
  LET r == gearman_server_job_peek(Server, c)
  IN  Step(r.st, Call("peek", c, << >>, "", r.job, r.fault), << >>, << >>, {})

PreSleep(c) ==
  /\ ~con[c].sleeping
  /\ Step([Server EXCEPT !.con[c].sleeping = TRUE], NoCall, << >>, << >>, {})

CanDo(c, function_name) ==
  /\ \A w \in DOMAIN worker :
       ~(w[1] = c /\ function[w[2]].function_name = function_name)
  /\ Step(gearman_server_worker_add(Server, c, function_name), NoCall, << >>,
          << >>, {})

WorkerFree(w, packets) ==
  /\ w \in DOMAIN worker
  /\ LET j == worker[w].job
         queued == IF j = NULL THEN << >>
                   ELSE IF gearman_server_job_queue(Server, j, packets).ret
                             = GEARMAN_SUCCESS
                   THEN << j >> ELSE << >>
     IN  Step(gearman_server_worker_free(Server, w, packets), NoCall, << >>,
              queued, {})

\* sent by the connection that holds the job
WorkComplete(c, j) ==
  /\ j \in DOMAIN job
  /\ job[j].worker # NoWorker
  /\ job[j].worker[1] = c
  /\ Step(work_complete(Server, j), NoCall, << >>, << >>, {})

ClientFree(cl) ==
  /\ cl \in DOMAIN client
  /\ Step(gearman_server_client_free(Server, cl), NoCall, << >>, << >>, {})

MaxQueue(function_name, size) ==
  /\ Step(maxqueue(Server, function_name, size), NoCall, << >>, << >>, {})

(***************************************************************************)
(* Spec: background submissions with every kind of unique and workload to   *)
(* two functions, a queue limit, and one worker connection that takes and  *)
(* completes the jobs of the first function.                               *)
(***************************************************************************)
\* the submissions: every pair of Submissions to the first function, the
\* pairs that share a key with them to the second
SubmitInputs ==
  { << <<102>>, sub >> : sub \in Submissions }
  \cup { << <<103>>, sub >> : sub \in { << <<97>>, <<97>> >>, << <<45>>, <<97>> >> } }

\* no sleeping worker and no queue adapter: the outcomes that differ
NdSubmit ==
  { NdOk(k) : k \in UninitKeys }
  \cup { [NdOk(U32Zero) EXCEPT !.mem_function = FALSE],
         [NdOk(U32Zero) EXCEPT !.mem_job = FALSE] }

Next ==
  \/ \E in \in SubmitInputs, nd \in NdSubmit :
       SubmitJob(1, in[1], in[2][1], in[2][2], GEARMAN_JOB_PRIORITY_NORMAL,
                 FALSE, nd)
  \/ \E size \in 1 .. MaxQueueSize : MaxQueue(<<102>>, size)
  \/ CanDo(MaxCons, <<102>>)
  \/ GrabJob(MaxCons)
  \/ \E j \in DOMAIN job : WorkComplete(MaxCons, j)

Spec == Init /\ [][Next]_vars

(***************************************************************************)
(* Deduplication of submissions (checked under Spec).  A step that calls   *)
(* gearman_server_job_add has last'.op = "add": last' holds its arguments  *)
(* and what it returned, the unprimed variables the state it was called in.*)
(***************************************************************************)
Dash == << 45 >>

\* the live jobs that were submitted with the function name and unique of a
Twins(a) ==
  { j \in DOMAIN job : /\ submitted[j].function_name = a.function_name
                       /\ submitted[j].unique = a.unique }

\* the live jobs of the function named in a that hold the workload of a
SameData(a) ==
  { j \in DOMAIN job : /\ function[job[j].function].function_name = a.function_name
                       /\ job[j].data = a.data }

\* those of them that are stored under the hash of that workload
SameDataKey(a) ==
  { j \in SameData(a) : job[j].unique_key = _server_job_hash(a.data) }

\* the call created no job and dropped none, and no job_total moved
NoJobCreated ==
  /\ DOMAIN job' = DOMAIN job
  /\ \A f \in DOMAIN function : /\ f \in DOMAIN function'
                                /\ function'[f].job_total = function[f].job_total

\* the call returned a new job: one that was not live before and is live now
NewJobReturned ==
  /\ last'.job # NULL
  /\ last'.job \notin DOMAIN job
  /\ last'.job \in DOMAIN job'
  /\ \A k \in DOMAIN job : job[k].job_handle # job'[last'.job].job_handle

\* C1 as stated, for the uniques that are not "-": a second call with the
\* function and non-empty unique of a live job reports JOB_EXISTS with that
\* job, creates no job and leaves job_total as the first call left it.
C1_Stated ==
  [][ (/\ last'.op = "add" /\ last'.args.unique # << >>
       /\ last'.args.unique # Dash /\ Twins(last'.args) # {})
      => /\ last'.ret = GEARMAN_JOB_EXISTS
         /\ last'.job \in Twins(last'.args)
         /\ NoJobCreated ]_vars

\* C2 as stated: a second call with unique "-" and the non-empty workload of
\* a live job that was submitted the same way returns that job and creates
\* none.
C2_Stated ==
  [][ (/\ last'.op = "add" /\ last'.args.unique = Dash /\ last'.args.data # << >>
       /\ Twins(last'.args) \cap SameData(last'.args) # {})
      => /\ last'.job \in Twins(last'.args) \cap SameData(last'.args)
         /\ NoJobCreated ]_vars

\* C2: a second call with unique "-" and the non-empty workload d of a live
\* job that was submitted the same way reports JOB_EXISTS and creates no job;
\* the job it returns is the most recently created live job of the function
\* that holds d under the key hash(d), which is the first call's job when no
\* such job was created after it.
C2_Theorem ==
  [][ (/\ last'.op = "add" /\ last'.args.unique = Dash /\ last'.args.data # << >>
       /\ Twins(last'.args) \cap SameData(last'.args) # {})
      => /\ last'.ret = GEARMAN_JOB_EXISTS
         /\ last'.job = Max(SameDataKey(last'.args))
         /\ Twins(last'.args) \cap SameData(last'.args) \subseteq SameDataKey(last'.args)
         /\ NoJobCreated ]_vars

\* the latest call: unique "-" with a workload, answered with the job of an
\* earlier submission of the same kind
C2_Witness ==
  /\ last.op = "add" /\ last.ret = GEARMAN_JOB_EXISTS
  /\ last.args.unique = Dash /\ last.args.data # << >>
  /\ last.job \in DOMAIN job
  /\ submitted[last.job].unique = Dash
  /\ submitted[last.job].data = last.args.data

\* C3 as stated: a call with unique "-" and non-empty workload d reuses a
\* live job of the function that holds d, whatever its unique, and creates a
\* job only when there is none.
C3_Stated ==
  [][ (last'.op = "add" /\ last'.args.unique = Dash /\ last'.args.data # << >>)
      => IF SameData(last'.args) # {}
         THEN /\ last'.ret = GEARMAN_JOB_EXISTS
              /\ last'.job \in SameData(last'.args)
              /\ NoJobCreated
         ELSE last'.ret # GEARMAN_JOB_EXISTS ]_vars

\* C3: a call with unique "-" and non-empty workload d reuses a live job of
\* the function that holds d under the key hash(d) and creates none; when no
\* such job is live, a job that holds d under another key is not reused: the
\* call returns a new job or fails.
C3_Theorem ==
  [][ (last'.op = "add" /\ last'.args.unique = Dash /\ last'.args.data # << >>)
      => IF SameDataKey(last'.args) # {}
         THEN /\ last'.ret = GEARMAN_JOB_EXISTS
              /\ last'.job \in SameDataKey(last'.args)
              /\ NoJobCreated
         ELSE /\ last'.ret # GEARMAN_JOB_EXISTS
              /\ last'.ret = GEARMAN_SUCCESS => NewJobReturned
              /\ last'.ret # GEARMAN_SUCCESS => last'.job = NULL ]_vars

\* the latest call: unique "-" with a workload, answered with a new job while
\* another live job of the function holds the same workload
C3_Witness ==
  /\ last.op = "add" /\ last.ret = GEARMAN_SUCCESS
  /\ last.args.unique = Dash /\ last.args.data # << >>
  /\ \E k \in DOMAIN job :
       /\ k # last.job
       /\ job[k].function = job[last.job].function
       /\ job[k].data = last.args.data

\* a unique that the job record stores whole and that is looked up as it is
Ordinary(unique) ==
  /\ unique # << >>
  /\ unique # Dash
  /\ Len(unique) < GEARMAN_UNIQUE_SIZE

\* no live job stores the unique of a as the truncation of a longer one
\* under the same key
NoTruncatedTwin(a) ==
  \A k \in DOMAIN job :
     (/\ submitted[k].unique # a.unique
      /\ function[job[k].function].function_name = a.function_name
      /\ job[k].unique = a.unique)
     => job[k].unique_key # _server_job_hash(a.unique)

C5_Theorem ==
  [][ (last'.op = "add" /\ last'.args.unique = << >>)
      => /\ last'.ret # GEARMAN_JOB_EXISTS
         /\ last'.ret = GEARMAN_SUCCESS => NewJobReturned
         /\ last'.ret # GEARMAN_SUCCESS => (last'.job = NULL /\ NoJobCreated) ]_vars

\* the latest call: an empty unique, answered with a new job while a live
\* job of the function has an empty unique and the same workload
C5_Witness ==
  /\ last.op = "add" /\ last.ret = GEARMAN_SUCCESS
  /\ last.args.unique = << >>
  /\ \E k \in DOMAIN job :
       /\ k # last.job
       /\ submitted[k] = last.args

\* C6: the job a call returns is a job of the function the call names; it is
\* none of the jobs that were submitted under another function name.
C6_Theorem ==
  [][ (last'.op = "add" /\ last'.job # NULL)
      => /\ last'.job \in DOMAIN job'
         /\ function'[job'[last'.job].function].function_name
              = last'.args.function_name
         /\ \A k \in DOMAIN job :
              submitted[k].function_name # last'.args.function_name
              => last'.job # k ]_vars

\* the latest call: answered with a job while a job submitted with the same
\* unique and workload under another function name is live
C6_Witness ==
  /\ last.op = "add" /\ last.job # NULL
  /\ last.args.unique # << >>
  /\ \E k \in DOMAIN job :
       /\ submitted[k].function_name # last.args.function_name
       /\ submitted[k].unique = last.args.unique
       /\ submitted[k].data = last.args.data

\* the functions of that name that are at their limit
Full(function_name) ==
  { f \in DOMAIN function : /\ function[f].function_name = function_name
                            /\ function[f].max_queue_size > 0
                            /\ function[f].job_total >= function[f].max_queue_size }

\* hash tables, priority lists and counters are as they were
QueueUntouched ==
  UNCHANGED << job, job_hash, job_count, unique_hash, unique_count, function,
               function_list, job_handle_count >>

\* C7 as stated: every call for a function that is at its limit fails with
\* JOB_QUEUE_FULL, returns no job and leaves tables, lists and counters alone.
C7_Stated ==
  [][ (last'.op = "add" /\ Full(last'.args.function_name) # {})
      => /\ last'.ret = GEARMAN_JOB_QUEUE_FULL
         /\ last'.job = NULL
         /\ QueueUntouched ]_vars

\* C7: a call for a function that is at its limit is either answered
\* JOB_EXISTS with a live job, or it fails with JOB_QUEUE_FULL and returns
\* no job; either way it creates no job and leaves tables, lists and
\* counters alone.
C7_Theorem ==
  [][ (last'.op = "add" /\ Full(last'.args.function_name) # {})
      => /\ last'.ret \in {GEARMAN_JOB_EXISTS, GEARMAN_JOB_QUEUE_FULL}
         /\ last'.ret = GEARMAN_JOB_EXISTS => last'.job \in DOMAIN job
         /\ last'.ret = GEARMAN_JOB_QUEUE_FULL => last'.job = NULL
         /\ QueueUntouched ]_vars

\* the latest call: refused with JOB_QUEUE_FULL by a function that holds as
\* many jobs as its limit allows
C7_Witness ==
  /\ last.op = "add" /\ last.ret = GEARMAN_JOB_QUEUE_FULL
  /\ \E f \in DOMAIN function :
       /\ function[f].function_name = last.args.function_name
       /\ function[f].max_queue_size > 1
       /\ function[f].job_total = function[f].max_queue_size

(***************************************************************************)
(* SpecDispatch: foreground submissions of every priority to two functions *)
(* (empty unique, so every one is a job of its own), clients that leave,   *)
(* one worker connection that declares and withdraws functions, peeks,     *)
(* grabs and completes.                                                    *)
(***************************************************************************)
NextDispatch ==
  \/ \E fn \in FunctionNames, priority \in Priorities :
       SubmitJob(1, fn, << >>, << >>, priority, TRUE, NdOk(U32Zero))
  \/ \E cl \in DOMAIN client : ClientFree(cl)
  \/ \E fn \in FunctionNames : CanDo(MaxCons, fn)
  \/ \E w \in DOMAIN worker : WorkerFree(w, MaxCons)
  \/ GrabJob(MaxCons)
  \/ JobPeek(MaxCons)
  \/ \E j \in DOMAIN job : WorkComplete(MaxCons, j)

SpecDispatch == Init /\ [][NextDispatch]_vars

\* the jobs that wait in a list and are not marked IGNORE
Eligible ==
  { k \in Range(fifo) : GEARMAN_SERVER_JOB_IGNORE \notin job[k].options }

\* the place of job k in the order of the enqueues
Place(k) == CHOOSE i \in 1 .. Len(fifo) : fifo[i] = k

\* C8: the job that take (or peek) returns waited in a list, is not marked
\* IGNORE, and no waiting job of its function that is not marked IGNORE has
\* a higher priority (a smaller priority number).
C8_Theorem ==
  [][ (last'.op \in {"take", "peek"} /\ last'.job # NULL)
      => /\ last'.job \in Eligible
         /\ \A k \in Eligible :
              job[k].function = job[last'.job].function
              => job[k].priority >= job[last'.job].priority ]_vars

\* the latest take returned a job although a job of lower priority of the
\* same function was enqueued before it and still waits
C8_Witness ==
  /\ last.op = "take" /\ last.job \in DOMAIN job
  /\ \E k \in Range(fifo) :
       /\ k < last.job
       /\ job[k].function = job[last.job].function
       /\ job[k].priority > job[last.job].priority

\* C9: when take returns job B, no job A of the same function and priority
\* that was enqueued before B still waits, neither of them having been
\* queued again: A was returned by an earlier take (or reaped as IGNORE).
C9_Theorem ==
  [][ (last'.op = "take" /\ last'.job \in Range(fifo))
      => \A k \in Range(fifo) :
           (/\ Place(k) < Place(last'.job)
            /\ job[k].function = job[last'.job].function
            /\ job[k].priority = job[last'.job].priority
            /\ k \notin requeued
            /\ last'.job \notin requeued)
           => k \notin Range(fifo') ]_vars

\* the latest take returned the older of two jobs of one function and one
\* priority, neither queued again; the younger still waits
C9_Witness ==
  /\ last.op = "take" /\ last.job \in DOMAIN job
  /\ last.job \notin requeued
  /\ \E k \in Range(fifo) :
       /\ k > last.job
       /\ k \notin requeued
       /\ job[k].function = job[last.job].function
       /\ job[k].priority = job[last.job].priority

\* the functions the connection of the call declared, in the order of its
\* capability list, that have a waiting job not marked IGNORE
Serving(c) ==
  { i \in 1 .. Len(con[c].worker_list) :
      \E k \in Eligible : job[k].function = con[c].worker_list[i][2] }

\* C10: take and peek return a job of the first function of the capability
\* list that has a waiting job not marked IGNORE, and they return no job
\* exactly when no function of the list has one; they never read past the
\* priority lists.
C10_Theorem ==
  [][ last'.op \in {"take", "peek"}
      => /\ ~last'.fault
         /\ IF Serving(last'.con) = {}
            THEN last'.job = NULL
            ELSE /\ last'.job \in Eligible
                 /\ job[last'.job].function
                      = con[last'.con].worker_list[Min(Serving(last'.con))][2] ]_vars

\* the latest take served the first function of a capability list of two
\* while a job of the second function waits
C10_Witness ==
  /\ last.op = "take" /\ last.job \in DOMAIN job
  /\ Len(con[last.con].worker_list) = 2
  /\ job[last.job].function = con[last.con].worker_list[1][2]
  /\ \E k \in Range(fifo) : job[k].function = con[last.con].worker_list[2][2]

(***************************************************************************)
(* Jobs marked IGNORE (checked under SpecDispatch).                        *)
(***************************************************************************)
\* the jobs in the chains of a hash table
Hashed(hash) == UNION { Range(hash[b]) : b \in DOMAIN hash }

\* the jobs of function f that the step frees
Freed(f) == { k \in DOMAIN job \ DOMAIN job' : job[k].function = f }

\* 1 when the step is a take that hands a job of function f to a worker
Handed(f) ==
  IF last'.op = "take" /\ last'.job # NULL /\ job[last'.job].function = f
  THEN 1 ELSE 0

\* the jobs that stand before job k in the priority list of k
Ahead(k) ==
  LET list == JobList(Server, job[k].function, job[k].priority)
  IN  { list[i] : i \in { n \in 1 .. Len(list) :
                            \E m \in (n + 1) .. Len(list) : list[m] = k } }

\* C11: take and peek never return a job that is marked IGNORE; the jobs
\* they free are exactly jobs that waited in a list marked IGNORE, among them
\* every job that stood before the returned job in its list; a freed job
\* is in neither hash table, job_total and job_count fall by one for each
\* freed job and job_running changes only by the job a take hands out.
C11_Theorem ==
  [][ last'.op \in {"take", "peek"}
      => /\ last'.job # NULL
              => /\ GEARMAN_SERVER_JOB_IGNORE \notin job[last'.job].options
                 /\ last'.job \in DOMAIN job'
                 /\ Ahead(last'.job) \cap DOMAIN job' = {}
         /\ \A k \in DOMAIN job \ DOMAIN job' :
              /\ GEARMAN_SERVER_JOB_IGNORE \in job[k].options
              /\ job[k].worker = NoWorker
              /\ k \in Range(fifo)
              /\ k \notin Hashed(job_hash') \cup Hashed(unique_hash')
         /\ job_count' = job_count - Cardinality(DOMAIN job \ DOMAIN job')
         /\ \A f \in DOMAIN function :
              /\ function'[f].job_total
                   = function[f].job_total - Cardinality(Freed(f))
              /\ function'[f].job_count
                   = function[f].job_count - Cardinality(Freed(f)) - Handed(f)
              /\ function'[f].job_running
                   = function[f].job_running + Handed(f) ]_vars

\* the latest take or peek freed a job marked IGNORE and went on to return
\* the job behind it
C11_Witness ==
  /\ last.op \in {"take", "peek"}
  /\ reaped # {}
  /\ last.job \in DOMAIN job
  /\ \E k \in reaped : k < last.job

(***************************************************************************)
(* SpecPersist: a broker with a persistent queue adapter.  Foreground and  *)
(* background submissions of one function, with and without a unique, the  *)
(* adapter or the packet allocation failing, a worker that sleeps, takes   *)
(* and completes, clients that disconnect, and the broker starting again   *)
(* on the records the adapter kept.                                        *)
(***************************************************************************)
\* the server record of a broker that starts with the adapter q and the
\* handle counter count
server_start(q, count) ==
  [ function_list |-> << >>, function |-> << >>, job |-> << >>,
    job_handle_count |-> count, job_alloc |-> 1, job_hash |-> << >>,
    job_count |-> 0, unique_hash |-> << >>, unique_count |-> 0,
    con |-> [c \in Cons |-> [worker_list |-> << >>, noop_queued |-> FALSE,
                             sleeping |-> FALSE, io_noop |-> 0]],
    worker |-> << >>, client |-> << >>, options |-> {}, queue |-> q ]

\* the variables hold the server record s and no history
Start(s) ==
  /\ function_list = s.function_list
  /\ function = s.function
  /\ job = s.job
  /\ job_handle_count = s.job_handle_count
  /\ job_alloc = s.job_alloc
  /\ job_hash = s.job_hash
  /\ job_count = s.job_count
  /\ unique_hash = s.unique_hash
  /\ unique_count = s.unique_count
  /\ con = s.con
  /\ worker = s.worker
  /\ client = s.client
  /\ options = s.options
  /\ queue = s.queue
  /\ last = NoCall
  /\ submitted = << >>
  /\ requeued = {}
  /\ fifo = << >>
  /\ reaped = {}
  /\ issued = {}
  /\ ConInit

\* an adapter with add, flush and done that holds no record
QueueAdapter ==
  [fns |-> {"add", "flush", "done"}, records |-> << >>, calls |-> << >>]

InitPersist == Start(server_start(QueueAdapter, U32One))

\* the replay of the records: gearman_server_job_add is called for each
\* record, in the order of the records, without a client
RECURSIVE replay_records(_, _, _)
replay_records(s, records, i) ==
  IF i > Len(records) THEN s
  ELSE replay_records(
         gearman_server_job_add(s, records[i].function_name,
                                records[i].unique, records[i].data,
                                records[i].priority, NULL, NdOk(U32Zero)).st,
         records, i + 1)

\* the replay at startup: GEARMAN_SERVER_QUEUE_REPLAY is set while the
\* records are replayed
queue_replay(s) ==
  [replay_records([s EXCEPT !.options = @ \cup {GEARMAN_SERVER_QUEUE_REPLAY}],
                  s.queue.records, 1)
     EXCEPT !.options = @ \ {GEARMAN_SERVER_QUEUE_REPLAY}]

\* the jobs of s in the order of their creation
RECURSIVE JobsFrom(_, _)
JobsFrom(s, j) ==
  IF j >= s.job_alloc THEN << >>
  ELSE (IF j \in DOMAIN s.job THEN << j >> ELSE << >>) \o JobsFrom(s, j + 1)

\* the broker stops and starts again: every connection is gone, the memory
\* is new, the adapter's records are replayed
Restart ==
  /\ Len(queue.records) <= MaxJobs
  /\ LET Replayed(s) ==
           /\ Commit(s)
           /\ last' = Call("replay", 0, queue.records, "", NULL, FALSE)
           /\ submitted' = [j \in DOMAIN s.job |->
                              [ function_name |->
                                  s.function[s.job[j].function].function_name,
                                unique |-> s.job[j].unique,
                                data |-> s.job[j].data,
                                priority |-> s.job[j].priority,
                                with_client |-> FALSE ]]
           /\ requeued' = {}
           /\ fifo' = JobsFrom(s, 1)
           /\ reaped' = {}
           /\ issued' = { s.job[j].job_handle : j \in DOMAIN s.job }
           /\ UNCHANGED conVars
     IN  Replayed(queue_replay(
                    server_start([queue EXCEPT !.calls = << >>], U32One)))

\* the adapter fails in add or in flush, or no packet can be allocated
NdPersist ==
  { NdOk(U32Zero),
    [NdOk(U32Zero) EXCEPT !.q_add = GEARMAN_QUEUE_ERROR],
    [NdOk(U32Zero) EXCEPT !.q_flush = GEARMAN_QUEUE_ERROR],
    [NdOk(U32Zero) EXCEPT !.packets = 0] }

\* the submissions: <<unique, workload>>
PersistInputs ==
  { << << >>, << 97 >> >>, << << 97 >>, << 97 >> >>, << << 97 >>, << 98 >> >> }

NextPersist ==
  \/ \E in \in PersistInputs, fg \in BOOLEAN, nd \in NdPersist :
       SubmitJob(1, << 102 >>, in[1], in[2], GEARMAN_JOB_PRIORITY_NORMAL,
                 fg, nd)
  \/ \E cl \in DOMAIN client : ClientFree(cl)
  \/ CanDo(MaxCons, << 102 >>)
  \/ PreSleep(MaxCons)
  \/ GrabJob(MaxCons)
  \/ \E j \in DOMAIN job : WorkComplete(MaxCons, j)
  \/ Restart

SpecPersist == InitPersist /\ [][NextPersist]_vars

(***************************************************************************)
(* SpecHandles: the job handles of a broker whose counter starts at 1, and *)
(* of a broker that has given out all but the last value of its counter.   *)
(***************************************************************************)
\* job_handle_count of a new broker, and after 2^32 - 2 jobs were created
HandleSeeds == { U32One, U32Max }

InitHandles == \E count \in HandleSeeds : Start(server_start(QueueAdapter, count))

NextHandles ==
  \/ \E unique \in { << >>, << 97 >> }, nd \in NdPersist :
       SubmitJob(1, << 102 >>, unique, << 97 >>, GEARMAN_JOB_PRIORITY_NORMAL,
                 FALSE, nd)
  \/ CanDo(MaxCons, << 102 >>)
  \/ PreSleep(MaxCons)
  \/ GrabJob(MaxCons)
  \/ \E j \in DOMAIN job : WorkComplete(MaxCons, j)

SpecHandles == InitHandles /\ [][NextHandles]_vars

\* a <= b for 32-bit values
U32Le(a, b) == a[1] < b[1] \/ (a[1] = b[1] /\ a[2] <= b[2])

\* C12 as stated: the counter never decreases; a call that creates a job,
\* also one that frees it again before it returns, moves the counter on and
\* uses a handle that no job had before; a job that is created carries the
\* handle made of the prefix and the counter.
C12_Stated ==
  [][ /\ U32Le(job_handle_count, job_handle_count')
      /\ job_alloc' > job_alloc
           => /\ job_handle_count' # job_handle_count
              /\ JobHandle(job_handle_count) \notin issued
      /\ \A j \in DOMAIN job' \ DOMAIN job :
           /\ job'[j].job_handle = JobHandle(job_handle_count)
           /\ \A k \in DOMAIN job : job[k].job_handle # job'[j].job_handle ]_vars

(***************************************************************************)
(* Clients of a job (checked under SpecPersist).                           *)
(***************************************************************************)
\* C13 as stated: the registration of a client for a job ends only when the
\* client's connection is dropped (ClientFree, Restart) or when the job ends
\* with a result (WorkComplete): never in a call of add, take or peek.
C13_Stated ==
  [][ \A cl \in DOMAIN client :
        (client[cl].job # NULL /\ cl \notin DOMAIN client')
        => last'.op \notin {"add", "take", "peek"} ]_vars

(***************************************************************************)
(* The persistent queue (checked under SpecPersist).                       *)
(***************************************************************************)
\* the step is a call of add without a client that returns a job (a call
\* with a client that returns a job adds the client record)
BackgroundAdd == last'.op = "add" /\ last'.job # NULL /\ client' = client

\* the records the adapter holds for job k after the step
RecordsOf(k) ==
  { i \in 1 .. Len(queue'.records) :
      /\ queue'.records[i].unique = job'[k].unique
      /\ queue'.records[i].function_name
           = function'[job'[k].function].function_name }

\* C14 as stated: with the adapter installed, the job that a call of add
\* without a client returns has the QUEUED flag and a record in the
\* persistent queue, be the job new or found by its unique.
C14_Stated ==
  [][ (BackgroundAdd /\ "add" \in queue.fns)
      => /\ GEARMAN_SERVER_JOB_QUEUED \in job'[last'.job].options
         /\ RecordsOf(last'.job) # {} ]_vars

\* the step is a call of add outside the replay, with the adapter installed
AdapterAdd ==
  /\ last'.op = "add"
  /\ "add" \in queue.fns
  /\ GEARMAN_SERVER_QUEUE_REPLAY \notin options

\* the call created a job record (it may have freed it again)
Created == job_alloc' > job_alloc

\* the places of the invocations of the adapter's operation name in the step
Invoked(name) ==
  { i \in 1 .. Len(queue'.calls) : queue'.calls[i][1] = name }

\* the job the call created waits in a priority list after the step
Listed ==
  /\ job_alloc \in DOMAIN job'
  /\ \E p \in Priorities :
       job_alloc \in Range(JobList([job |-> job', function |-> function'],
                                   job'[job_alloc].function, p))

\* add and then flush were invoked, for the unique the job record holds, and
\* both before the job came to its list: a failure of either leaves the job
\* in no list and no connection with a new NOOP
PersistedFirst ==
  /\ Cardinality(Invoked("add")) = 1
  /\ queue'.calls[1][1] = "add"
  /\ queue'.calls[1][2] = snprintf(GEARMAN_UNIQUE_SIZE, last'.args.unique)
  /\ queue'.calls[1][3] = last'.args.function_name
  /\ Listed => /\ queue'.calls = << queue'.calls[1], << "flush", GEARMAN_SUCCESS >> >>
               /\ queue'.calls[1][4] = GEARMAN_SUCCESS
               /\ last'.ret = GEARMAN_SUCCESS
  /\ last'.ret = GEARMAN_QUEUE_ERROR => (~Listed /\ con' = con)

\* C15 as stated: every call of add that creates a job outside the replay
\* invokes the adapter's add exactly once, and add and flush are done
\* before the job is in a priority list.
C15_Stated == [][ (AdapterAdd /\ Created) => PersistedFirst ]_vars

\* C15: outside the replay and with the adapter installed, a call of add
\* without a client that creates a job invokes the adapter's add exactly
\* once, for that job, and add and flush are done before the job is in a
\* priority list; a call with a client, and a call that creates no job,
\* never invoke add.
C15_Theorem ==
  [][ AdapterAdd
      => IF Created /\ ~last'.args.with_client
         THEN PersistedFirst
         ELSE Invoked("add") = {} ]_vars

\* the latest call, without a client, created a job that now waits in its
\* list after add and flush were invoked
C15_Witness ==
  /\ last.op = "add" /\ ~last.args.with_client
  /\ last.ret = GEARMAN_SUCCESS
  /\ last.job \in Range(fifo)
  /\ Len(queue.calls) = 2
  /\ queue.calls[1][1] = "add" /\ queue.calls[2][1] = "flush"

\* the records the adapter holds for the function name
RecordsFor(function_name) ==
  { i \in 1 .. Len(queue.records) :
      queue.records[i].function_name = function_name }

\* C16 as stated: the replay of the K records the adapter holds leaves K
\* jobs, each with QUEUED set, every function with a job_total equal to the
\* number of its records, and invokes no operation of the adapter.
C16_Stated ==
  [][ last'.op = "replay"
      => /\ Cardinality(DOMAIN job') = Len(queue.records)
         /\ \A j \in DOMAIN job' :
              GEARMAN_SERVER_JOB_QUEUED \in job'[j].options
         /\ \A f \in DOMAIN function' :
              function'[f].job_total
                = Cardinality(RecordsFor(function'[f].function_name))
         /\ queue'.calls = << >> ]_vars

\* what a failing add or flush of the step returned
AdapterErrors ==
  { queue'.calls[i][Len(queue'.calls[i])] :
      i \in { n \in Invoked("add") \cup Invoked("flush") :
                queue'.calls[n][Len(queue'.calls[n])] # GEARMAN_SUCCESS } }

\* a function record that holds no job
NoJobs(fn) ==
  /\ fn.job_total = 0 /\ fn.job_running = 0 /\ fn.job_count = 0
  /\ \A p \in Priorities : fn.job_list[p] = NULL /\ fn.job_end[p] = NULL

\* C17: a call of add in which the adapter's add or flush fails returns no
\* job and the adapter's error; the jobs, both hash tables and their counts
\* are as before the call, and so are the priority lists, job_count,
\* job_running and job_total of every function (a function the call created
\* holds no job).
C17_Theorem ==
  [][ (last'.op = "add" /\ AdapterErrors # {})
      => /\ last'.job = NULL
         /\ AdapterErrors = {last'.ret}
         /\ UNCHANGED << job, job_hash, job_count, unique_hash, unique_count >>
         /\ \A f \in DOMAIN function' :
              IF f \in DOMAIN function THEN function'[f] = function[f]
              ELSE NoJobs(function'[f]) ]_vars

\* the latest call failed in the adapter while another job is queued
C17_Witness ==
  /\ last.op = "add" /\ last.job = NULL
  /\ \E i \in 1 .. Len(queue.calls) :
       /\ queue.calls[i][1] \in {"add", "flush"}
       /\ queue.calls[i][Len(queue.calls[i])] = GEARMAN_QUEUE_ERROR
  /\ fifo # << >>

\* the adapter's add succeeded in the step
AddSucceeded ==
  \E i \in Invoked("add") : queue'.calls[i][4] = GEARMAN_SUCCESS

\* C18 as stated: a call of add that hands the job to the adapter and then
\* gives the job up (flush fails, or the job cannot be queued) invokes the
\* adapter's done for the job, after add, and the adapter keeps no record
\* of it.
C18_Stated ==
  [][ (last'.op = "add" /\ AddSucceeded /\ last'.job = NULL)
      => /\ \E i \in Invoked("done") :
              /\ \A n \in Invoked("add") : n < i
              /\ queue'.calls[i][2] = queue'.calls[1][2]
              /\ queue'.calls[i][3] = queue'.calls[1][3]
         /\ Len(queue'.records) <= Len(queue.records) ]_vars

(***************************************************************************)
(* SpecWake: worker connections that declare a function, sleep, grab and   *)
(* complete jobs or drop the function while they hold a job, one of them   *)
(* also a worker of a second function, and background submissions to the   *)
(* first function.                                                         *)
(***************************************************************************)
\* a job is not queued again once a connection holds this many NOOP packets
MaxNoop == 2

\* every NOOP packet can be allocated, or none, or one
NdWake ==
  { NdOk(U32Zero), [NdOk(U32Zero) EXCEPT !.packets = 0],
    [NdOk(U32Zero) EXCEPT !.packets = 1] }

NextWake ==
  \/ \E nd \in NdWake :
       SubmitJob(1, << 102 >>, << >>, << 97 >>, GEARMAN_JOB_PRIORITY_NORMAL,
                 FALSE, nd)
  \/ \E c \in Cons : CanDo(c, << 102 >>)
  \/ CanDo(1, << 103 >>)
  \/ \E c \in Cons : PreSleep(c)
  \/ \E c \in Cons : GrabJob(c)
  \/ \E c \in Cons, j \in DOMAIN job : WorkComplete(c, j)
  \/ \E w \in DOMAIN worker, packets \in { 0, MaxCons } :
       /\ \A c \in Cons : con[c].io_noop < MaxNoop
       /\ WorkerFree(w, packets)

SpecWake == Init /\ [][NextWake]_vars

\* the jobs the step put at the end of a priority list
Enqueued == Range(fifo') \ Range(fifo)

\* the connections on which the step queued a NOOP
Woken == { c \in Cons : con'[c].io_noop > con[c].io_noop }

\* the connections that had declared function f before the step
Capable(f) ==
  IF f \in DOMAIN function
  THEN { function[f].worker_list[i][1] :
           i \in 1 .. Len(function[f].worker_list) }
  ELSE {}

C20_Stated ==
  [][ \A c \in Cons :
        /\ con[c].noop_queued => con'[c].io_noop <= con[c].io_noop
        /\ con'[c].io_noop <= 1 ]_vars

\* C21: in every state, a connection whose noop_queued is set has had at
\* least one NOOP packet queued since its last GRAB_JOB.
C21_Theorem ==
  \A c \in Cons : con[c].noop_queued => con[c].io_noop >= 1

\* a submission stopped at the second sleeping worker for want of a packet:
\* the first worker has its NOOP and its flag, the second has neither
C21_Witness ==
  /\ last.op = "add" /\ last.ret = GEARMAN_MEMORY_ALLOCATION_FAILURE
  /\ \E c, d \in Cons :
       /\ con[c].sleeping /\ con[c].noop_queued /\ con[c].io_noop = 1
       /\ con[d].sleeping /\ ~con[d].noop_queued /\ con[d].io_noop = 0
       /\ con[d].worker_list # << >>

(***************************************************************************)
(* SpecTake: gearman_server_job_take called on a worker connection, by the *)
(* GRAB_JOB handler and on its own, with background submissions of every   *)
(* priority and a worker that sleeps in between.                           *)
(***************************************************************************)
\* gearman_server_job_take, called on connection c
JobTake(c) ==
  LET Taken(r) ==
        Step(r.st, Call("take", c, << >>, "", r.job, r.fault), << >>, << >>,
             IF r.job # NULL THEN {r.job} ELSE {})
  IN  Taken(gearman_server_job_take(Server, c))

NextTake ==
  \/ \E priority \in Priorities :
       SubmitJob(1, << 102 >>, << >>, << 97 >>, priority, FALSE,
                 NdOk(U32Zero))
  \/ CanDo(MaxCons, << 102 >>)
  \/ PreSleep(MaxCons)
  \/ JobTake(MaxCons)
  \/ GrabJob(MaxCons)
  \/ \E j \in DOMAIN job : WorkComplete(MaxCons, j)

SpecTake == Init /\ [][NextTake]_vars

\* the jobs on the priority lists of the functions before the step
OnList ==
  UNION { Range(JobList([job |-> job, function |-> function], f, p)) :
            f \in DOMAIN function, p \in Priorities }

\* the jobs on the priority lists of the functions after the step
OnListAfter ==
  UNION { Range(JobList([job |-> job', function |-> function'], f, p)) :
            f \in DOMAIN function', p \in Priorities }

\* the returned job left its list, belongs to a worker of the taking
\* connection, and its function runs one job more
TakeEffects ==
  /\ last'.job \in OnList /\ last'.job \notin OnListAfter
  /\ job'[last'.job].worker \in DOMAIN worker'
  /\ job'[last'.job].worker[1] = last'.con
  /\ worker'[job'[last'.job].worker].job = last'.job
  /\ function'[job'[last'.job].function].job_running
       = function[job'[last'.job].function].job_running + 1

Requeued == { j \in Enqueued \cap DOMAIN job : job[j].worker # NoWorker }

\* C23 as stated: re-queueing a running job clears the job's worker,
\* decrements job_running, and puts the job back at the head of the list of
\* its original priority, before every job of that priority that waits.
C23_Stated ==
  [][ \A j \in Requeued :
        /\ job'[j].worker = NoWorker
        /\ function'[job[j].function].job_running
             = function[job[j].function].job_running - 1
        /\ job'[j].priority = job[j].priority
        /\ function'[job[j].function].job_list[job[j].priority] = j ]_vars

\* the number of jobs on the list of priority p of function f
ListLen(f, p) == Len(JobList([job |-> job, function |-> function], f, p))

\* C24 as stated: for every function F and every priority P, the job count
\* of F for P equals the number of jobs on F.job_list[P].
C24_Stated ==
  \A f \in DOMAIN function, p \in Priorities :
    function[f].job_count = ListLen(f, p)

\* C24: in every state, for every function F, F.job_count (one counter for
\* the function) equals the number of jobs on the lists of F of all
\* priorities together.
C24_Theorem ==
  \A f \in DOMAIN function :
    function[f].job_count
      = ListLen(f, GEARMAN_JOB_PRIORITY_HIGH)
        + ListLen(f, GEARMAN_JOB_PRIORITY_NORMAL)
        + ListLen(f, GEARMAN_JOB_PRIORITY_LOW)

\* a take handed out the job of the higher priority and left the function
\* with one job waiting at a lower priority
C24_Witness ==
  /\ last.op = "take" /\ last.job \in DOMAIN job
  /\ function[job[last.job].function].job_count = 1
  /\ \E p \in Priorities :
       /\ p > job[last.job].priority
       /\ ListLen(job[last.job].function, p) = 1

\* the existing jobs of function f
JobsOf(f) == { j \in DOMAIN job : job[j].function = f }

\* C25: in every state, for every function F, F.job_total equals the number
\* of existing jobs whose function is F (queued, running or marked IGNORE)
\* and F.job_running equals the number of those whose worker is set.
C25_Theorem ==
  \A f \in DOMAIN function :
    /\ function[f].job_total = Cardinality(JobsOf(f))
    /\ function[f].job_running
         = Cardinality({ j \in JobsOf(f) : job[j].worker # NoWorker })

\* a function with a running job and a waiting job that is marked IGNORE
C25_Witness ==
  \E f \in DOMAIN function :
    /\ function[f].job_total = 2 /\ function[f].job_running = 1
    /\ \E j \in JobsOf(f) :
         /\ job[j].worker = NoWorker
         /\ GEARMAN_SERVER_JOB_IGNORE \in job[j].options

\* the places of job j on the priority lists: <<function, priority, index>>
Places(j) ==
  { x \in (DOMAIN function) \X Priorities \X (1 .. Cardinality(DOMAIN job)) :
      /\ x[3] <= ListLen(x[1], x[2])
      /\ JobList([job |-> job, function |-> function], x[1], x[2])[x[3]] = j }

\* C26 as stated: in every state, every existing job is on exactly one
\* priority list if and only if it has no worker and is not marked IGNORE;
\* no job is on two lists or twice on one.
C26_Stated ==
  \A j \in DOMAIN job :
    /\ Cardinality(Places(j)) <= 1
    /\ Cardinality(Places(j)) = 1
         <=> (/\ job[j].worker = NoWorker
              /\ GEARMAN_SERVER_JOB_IGNORE \notin job[j].options)

\* the places of job j in a hash table: <<bucket, index>>
HashPlaces(hash, j) ==
  { x \in (DOMAIN hash) \X (1 .. (MaxJobs + 1)) :
      x[2] <= Len(hash[x[1]]) /\ hash[x[1]][x[2]] = j }

\* C27: in every state, every existing job is exactly once in the handle
\* hash table and exactly once in the unique hash table, in the bucket of
\* its stored key modulo GEARMAN_JOB_HASH_SIZE; the tables hold no job that
\* was freed, and their counts equal the number of existing jobs.
C27_Theorem ==
  /\ \A j \in DOMAIN job :
       /\ Cardinality(HashPlaces(job_hash, j)) = 1
       /\ Cardinality(HashPlaces(unique_hash, j)) = 1
       /\ \A x \in HashPlaces(job_hash, j) :
            x[1] = U32Mod(job[j].job_handle_key, GEARMAN_JOB_HASH_SIZE)
       /\ \A x \in HashPlaces(unique_hash, j) :
            x[1] = U32Mod(job[j].unique_key, GEARMAN_JOB_HASH_SIZE)
  /\ \A b \in DOMAIN job_hash : Len(job_hash[b]) <= MaxJobs + 1
  /\ \A b \in DOMAIN unique_hash : Len(unique_hash[b]) <= MaxJobs + 1
  /\ Hashed(job_hash) \subseteq DOMAIN job
  /\ Hashed(unique_hash) \subseteq DOMAIN job
  /\ job_count = Cardinality(DOMAIN job)
  /\ unique_count = Cardinality(DOMAIN job)

\* the first job was completed and freed, the second is in both tables
C27_Witness ==
  /\ DOMAIN job = {2}
  /\ job_count = 1 /\ unique_count = 1
  /\ Hashed(job_hash) = {2} /\ Hashed(unique_hash) = {2}
  /\ job[2].worker # NoWorker

\* the client list of job k before the step; a job the step created had none
ClientsBefore(k) == IF k \in DOMAIN job THEN job[k].client_list ELSE << >>

\* C28: a call of add with a client that returns a job, new (SUCCESS) or
\* existing (JOB_EXISTS), puts that client at the head of the job's client
\* list and sets client.job to the job, and touches no other client list; a
\* call without a client leaves every client and every client list as it
\* was.
C28_Theorem ==
  [][ /\ (last'.op = "add" /\ last'.args.with_client /\ last'.job # NULL)
         => /\ last'.ret \in {GEARMAN_SUCCESS, GEARMAN_JOB_EXISTS}
            /\ last'.job \in DOMAIN job'
            /\ \E cl \in DOMAIN client' \ DOMAIN client :
                 /\ DOMAIN client' = DOMAIN client \cup {cl}
                 /\ client'[cl].job = last'.job
                 /\ job'[last'.job].client_list
                      = << cl >> \o ClientsBefore(last'.job)
            /\ \A k \in DOMAIN job' \ {last'.job} :
                 job'[k].client_list = ClientsBefore(k)
      /\ (last'.op = "add" /\ ~last'.args.with_client)
         => /\ client' = client
            /\ \A k \in DOMAIN job' : job'[k].client_list = ClientsBefore(k)
    ]_vars

\* the latest call had a client and was answered JOB_EXISTS: the job now has
\* the client of the call and the client it had before
C28_Witness ==
  /\ last.op = "add" /\ last.args.with_client
  /\ last.ret = GEARMAN_JOB_EXISTS
  /\ last.job \in DOMAIN job
  /\ Len(job[last.job].client_list) = 2
  /\ \A cl \in Range(job[last.job].client_list) : client[cl].job = last.job

(***************************************************************************)
(* SpecCon: gearmand without and with I/O threads; connections are         *)
(* accepted, handed to their threads, adopted and closed, in every order   *)
(* the threads can run in.                                                 *)
(***************************************************************************)
NextCon ==
  \/ \E n \in Threads : ThreadsCreate(n)
  \/ \E ok \in BOOLEAN : ConCreate(ok)
  \/ MainFreeCount
  \/ MainFastTest
  \/ MainFastPrev
  \/ MainFastNext
  \/ MainFastList
  \/ MainFastLoad
  \/ MainFastStore
  \/ MainFastWakeup
  \/ MainLock
  \/ MainLockedList
  \/ MainLockedCount
  \/ MainUnlock
  \/ MainFirst
  \/ MainMove
  \/ MainNext
  \/ \E t \in Threads : CheckQueue(t)
  \/ \E t \in Threads : CqWhile(t)
  \/ \E t \in Threads : CqLock(t)
  \/ \E t \in Threads : CqHead(t)
  \/ \E t \in Threads : CqTest(t)
  \/ \E t \in Threads : CqDel(t)
  \/ \E t \in Threads : CqLinks(t)
  \/ \E t \in Threads : CqLoad(t)
  \/ \E t \in Threads : CqStore(t)
  \/ \E t \in Threads : CqUnlock(t)
  \/ \E t \in Threads, ok \in BOOLEAN : CqConAdd(t, ok)
  \/ \E t \in Threads, d \in Dcons : ConFree(t, d)
  \/ \E t \in Threads : CfLock(t)
  \/ \E t \in Threads : CfAdd(t)

SpecCon == Init /\ [][NextCon]_vars

\* C29: with I/O threads, the i-th connection goes to thread
\* ((i - 1) mod N) + 1 of the N threads of thread_list, so after the last
\* thread comes the first, and any N connections in a row go to N different
\* threads.
C29_Theorem ==
  gearmand.threads > 0
  => /\ \A i \in DOMAIN assigned :
          assigned[i] = ThreadList(gearmand)[((i - 1) % gearmand.threads) + 1]
     /\ \A i \in DOMAIN assigned :
          i + gearmand.threads - 1 <= Len(assigned)
          => { assigned[k] : k \in i .. (i + gearmand.threads - 1) }
               = Range(ThreadList(gearmand))

\* more connections than threads were accepted: the one after the last
\* thread's went to the first thread again
C29_Witness ==
  /\ gearmand.threads = MaxThreads /\ MaxThreads > 1
  /\ Len(assigned) > MaxThreads
  /\ assigned[MaxThreads] = MaxThreads
  /\ assigned[MaxThreads + 1] = 1

(***************************************************************************)
(* The lists a connection is on.                                           *)
(***************************************************************************)
\* the lists of connections that reach structure d: the list to adopt and
\* the list of connections of every thread
ListsOf(d) ==
  { <<"dcon_add_list", t>> : t \in { u \in Threads :
        d \in OnChain(dcon, thread[u].dcon_add_list) } }
  \cup { <<"dcon_list", t>> : t \in { u \in Threads :
        d \in OnChain(dcon, thread[u].dcon_list) } }

\* the open connections
Open == { d \in Dcons : dcon[d].live /\ dcon[d].fd # 0 }

\* the thread gearmand_con_create gave the connection of structure d
Owner(d) == IF gearmand.threads = 0 THEN 1 ELSE assigned[dcon[d].fd]

\* C30: every open connection is on at most one of the lists to adopt and
\* the lists of connections of the threads, and that list belongs to the
\* thread the connection was assigned to when it was created.
C30_Stated ==
  \A d \in Open :
    /\ Cardinality(ListsOf(d)) <= 1
    /\ \A l \in ListsOf(d) : l[2] = Owner(d)

(***************************************************************************)
(* The lock of the list to adopt (checked under SpecCon).                  *)
(***************************************************************************)
\* the step writes dcon_add_list or dcon_add_count of thread t
WritesAddList(t) ==
  \/ thread'[t].dcon_add_list # thread[t].dcon_add_list
  \/ thread'[t].dcon_add_count # thread[t].dcon_add_count

\* the process that takes the step
Stepping == { p \in DOMAIN pc : pc'[p] # pc[p] }

\* C31: every step that writes dcon_add_list or dcon_add_count of a thread,
\* by gearmand_con_create or by gearmand_con_check_queue, is taken by the
\* process that holds the lock of that thread.
C31_Stated ==
  [][ \A t \in Threads :
        WritesAddList(t) => \A p \in Stepping : thread[t].lock = p ]_vars

(***************************************************************************)
(* dcon_add_count and the list it counts (checked under SpecCon).          *)
(***************************************************************************)
\* the accepting thread is outside gearmand_con_create and thread t is
\* outside gearmand_con_check_queue
Quiescent(t) == pc[Main].at = "idle" /\ pc[t].at = "idle"

\* the connections on the list to adopt of thread t
AddList(t) == Chain(dcon, thread[t].dcon_add_list, MaxDcon)

\* C33: dcon_add_count never wraps below zero, and whenever the accepting
\* thread and the owning thread are both quiescent it equals the number of
\* connections on dcon_add_list (so it is not non-zero with an empty list).
C33_Stated ==
  \A t \in Threads :
    /\ U32Le(thread[t].dcon_add_count, << 0, MaxAccept >>)
    /\ Quiescent(t) => thread[t].dcon_add_count = << 0, Len(AddList(t)) >>

(***************************************************************************)
(* Adoption of the connections on the list to adopt. A thread that is in   *)
(* gearmand_con_create, or an I/O thread that has a wakeup to read or is   *)
(* in gearmand_con_check_queue or gearmand_con_free, goes on; whether      *)
(* another connection arrives or one is closed is up to the clients.       *)
(***************************************************************************)
\* the steps of gearmand_con_create after the connection was accepted
MainSteps ==
  \/ MainFreeCount \/ MainFastTest \/ MainFastPrev \/ MainFastNext
  \/ MainFastList \/ MainFastLoad \/ MainFastStore \/ MainFastWakeup
  \/ MainLock \/ MainLockedList \/ MainLockedCount \/ MainUnlock
  \/ MainFirst \/ MainMove \/ MainNext

\* the steps of I/O thread t: it services its wakeups
ThreadSteps(t) ==
  \/ CheckQueue(t) \/ CqWhile(t) \/ CqLock(t) \/ CqHead(t) \/ CqTest(t)
  \/ CqDel(t) \/ CqLinks(t) \/ CqLoad(t) \/ CqStore(t) \/ CqUnlock(t)
  \/ (\E ok \in BOOLEAN : CqConAdd(t, ok)) \/ CfLock(t) \/ CfAdd(t)

SpecConFair ==
  /\ SpecCon
  /\ WF_vars(MainSteps)
  /\ \A t \in Threads : WF_vars(ThreadSteps(t))

\* structure d is on the list to adopt of thread t
ToAdopt(t, d) == d \in OnChain(dcon, thread[t].dcon_add_list)

\* thread t ran _con_add for structure d: the connection is on its list of
\* connections, or was closed and the structure freed
Adopted(t, d) == d \in OnChain(dcon, thread[t].dcon_list) \/ ~dcon[d].live

\* C32: a connection on the list to adopt of a thread is eventually moved
\* to the list of connections of that thread, under every interleaving of
\* gearmand_con_create and gearmand_con_check_queue.
C32_Stated ==
  \A t \in Threads : \A d \in Dcons : ToAdopt(t, d) ~> Adopted(t, d)

(***************************************************************************)
(* job_count and the scan of take (checked under SpecDispatch).            *)
(***************************************************************************)
\* C34: in every state, after every add, take, reap, re-queue and free,
\* job_count of a function is the number of jobs on its three lists
\* together, so a function with job_count # 0 has a list that is not empty,
\* and no take or peek reads job_list[GEARMAN_JOB_PRIORITY_MAX].
C34_Theorem ==
  /\ \A f \in DOMAIN function :
       /\ function[f].job_count
            = Len(JobList(Server, f, GEARMAN_JOB_PRIORITY_HIGH))
              + Len(JobList(Server, f, GEARMAN_JOB_PRIORITY_NORMAL))
              + Len(JobList(Server, f, GEARMAN_JOB_PRIORITY_LOW))
       /\ function[f].job_count # 0
            => take_priority(function[f]) # GEARMAN_JOB_PRIORITY_MAX
  /\ ~last.fault

\* a take freed a job marked IGNORE and then handed out a job from the list
\* of the lowest priority, the last one the scan reaches
C34_Witness ==
  /\ last.op = "take" /\ reaped # {}
  /\ last.job \in DOMAIN job
  /\ job[last.job].priority = GEARMAN_JOB_PRIORITY_LOW
  /\ job[last.job].worker # NoWorker

(***************************************************************************)
(* peek and take on the same connection (checked under SpecDispatch).      *)
(***************************************************************************)
\* the job at the head of the list that a peek of connection c inspects
\* first, NULL when it finds none
Inspected(s, c) ==
  IF peek_head(s, c) = << >> THEN NULL
  ELSE s.function[peek_head(s, c)[1][2]].job_list[peek_head(s, c)[2]]

\* the state in which peek calls take: the job it inspected has lost its
\* IGNORE flag (lines 299-300)
Cleared(s, j) ==
  [s EXCEPT !.job[j].options = @ \ {GEARMAN_SERVER_JOB_IGNORE}]

\* a take that follows the peek with result r returns the job of the peek
TakeAgrees(r, c) ==
  r.job # NULL => gearman_server_job_take(r.st, c).job = r.job

\* C35: in every state and for every connection, a take that immediately
\* follows a peek that returned job J returns J, and when the job a peek
\* inspects is marked IGNORE, the take by which the peek removes it returns
\* exactly that job.
C35_Theorem ==
  \A c \in Cons :
    /\ TakeAgrees(gearman_server_job_peek(Server, c), c)
    /\ ~gearman_server_job_peek(Server, c).fault
    /\ ( /\ Inspected(Server, c) # NULL
         /\ GEARMAN_SERVER_JOB_IGNORE \in job[Inspected(Server, c)].options )
       => gearman_server_job_take(Cleared(Server, Inspected(Server, c)), c).job
            = Inspected(Server, c)

\* a connection whose peek inspects a job marked IGNORE, removes it and
\* returns the job behind it
C35_Witness ==
  \E c \in Cons :
    /\ Inspected(Server, c) # NULL
    /\ GEARMAN_SERVER_JOB_IGNORE \in job[Inspected(Server, c)].options
    /\ gearman_server_job_peek(Server, c).job # NULL

(***************************************************************************)
(* The links between jobs and workers (checked under SpecDispatch).        *)
(***************************************************************************)
\* C36: in every state, a job whose worker is W is the job of W, and a
\* worker whose job is J is the worker of J; also after a connection takes,
\* or reaps a job marked IGNORE, for a function whose worker record still
\* holds an unfinished job.
C36_Stated ==
  /\ \A j \in DOMAIN job :
       job[j].worker # NoWorker
       => job[j].worker \in DOMAIN worker /\ worker[job[j].worker].job = j
  /\ \A w \in DOMAIN worker :
       worker[w].job # NULL
       => worker[w].job \in DOMAIN job /\ job[worker[w].job].worker = w

(***************************************************************************)
(* SpecProgress: submissions to one function, one worker connection that   *)
(* grabs the jobs, reports progress on them, completes them or goes away   *)
(* (its jobs are queued again, with or without a failing wake-up), on a    *)
(* broker with a queue adapter.                                            *)
(***************************************************************************)
MaxProgress == 2

\* WORK_STATUS: the connection that holds the job stores the progress
WorkStatus(c, j, numerator, denominator) ==
  /\ j \in DOMAIN job
  /\ job[j].worker # NoWorker
  /\ job[j].worker[1] = c
  /\ Step([Server EXCEPT !.job[j].numerator = numerator,
                         !.job[j].denominator = denominator],
          NoCall, << >>, << >>, {})

NextProgress ==
  \/ \E priority \in { GEARMAN_JOB_PRIORITY_HIGH, GEARMAN_JOB_PRIORITY_LOW },
        fg \in BOOLEAN :
       SubmitJob(1, << 102 >>, << >>, << 97 >>, priority, fg, NdOk(U32Zero))
  \/ CanDo(MaxCons, << 102 >>)
  \/ PreSleep(MaxCons)
  \/ GrabJob(MaxCons)
  \/ \E j \in DOMAIN job, n \in 1 .. MaxProgress :
       WorkStatus(MaxCons, j, n, MaxProgress)
  \/ \E j \in DOMAIN job : WorkComplete(MaxCons, j)
  \/ \E w \in DOMAIN worker, packets \in { 0, MaxCons } :
       /\ \A c \in Cons : con[c].io_noop < MaxNoop
       /\ WorkerFree(w, packets)

SpecProgress == InitPersist /\ [][NextProgress]_vars

\* the jobs the step handed to gearman_server_job_queue: the job a step
\* created, and the job of a worker that the step freed
Born == DOMAIN job' \ DOMAIN job

Abandoned ==
  { worker[w].job : w \in { v \in DOMAIN worker \ DOMAIN worker' :
                              worker[v].job # NULL } }

\* what gearman_server_job_queue has to leave alone
Kept(r) ==
  [ job_handle |-> r.job_handle, unique |-> r.unique, priority |-> r.priority,
    data |-> r.data, client_list |-> r.client_list,
    queued |-> GEARMAN_SERVER_JOB_QUEUED \in r.options ]

\* C37: a step that hands a job to gearman_server_job_queue leaves the job
\* with numerator 0 and denominator 0, whether or not the call succeeds; a
\* job that existed before keeps its handle, unique, priority, data, client
\* list and QUEUED flag, and a job created by the step has the unique (when
\* one was given), priority and data of the submission.
C37_Theorem ==
  [][ /\ \A j \in Abandoned :
           /\ j \in DOMAIN job /\ j \in DOMAIN job'
           /\ job'[j].numerator = 0 /\ job'[j].denominator = 0
           /\ Kept(job'[j]) = Kept(job[j])
      /\ \A j \in Born :
           /\ job'[j].numerator = 0 /\ job'[j].denominator = 0
           /\ job'[j].priority = last'.args.priority
           /\ job'[j].data = last'.args.data
           /\ last'.args.unique # << >>
              => job'[j].unique = last'.args.unique ]_vars

\* a job with the QUEUED flag and a job with a client wait again after their
\* worker went away, while another job is running with stored progress
C37_Witness ==
  /\ \E j \in requeued \cap Range(fifo) :
       /\ job[j].numerator = 0 /\ job[j].denominator = 0
       /\ job[j].worker = NoWorker
       /\ GEARMAN_SERVER_JOB_QUEUED \in job[j].options
  /\ \E j \in requeued \cap Range(fifo) : job[j].client_list # << >>

(***************************************************************************)
(* SpecLookup: background submissions to one function on a broker with a   *)
(* queue adapter whose add may fail, a worker that grabs and completes,    *)
(* and lookups by handle (GET_STATUS) with handles of every counter value  *)
(* the model meets and with strings that are no handle of any job.         *)
(***************************************************************************)
\* a handle without its counter, a handle with one more digit, the empty string
LookupHandles ==
  { JobHandle(n) : n \in HandleCounts }
  \cup { << >>, job_handle_prefix, job_handle_prefix \o << 58 >>,
         JobHandle(U32One) \o << 48 >> }

\* GET_STATUS: the lookup changes nothing
JobGet(c, job_handle) ==
  Step(Server,
       Call("get", c, job_handle, "", gearman_server_job_get(Server, job_handle),
            FALSE),
       << >>, << >>, {})

\* 2^32 - 1 background submissions in a row whose queue add fails: each one
\* creates the job with the next handle, frees it again and leaves the
\* counter one higher (lines 113-119, 135-147), so together they leave the
\* counter one lower; the function exists already
Churn ==
  /\ function_list # << >>
  /\ "add" \in queue.fns
  /\ U32Add(job_handle_count, U32Max) \in HandleCounts
  /\ Step([Server EXCEPT !.job_handle_count = U32Add(@, U32Max)], NoCall,
          << >>, << >>, {})

NextLookup ==
  \/ \E q_add \in { GEARMAN_SUCCESS, GEARMAN_QUEUE_ERROR } :
       SubmitJob(1, << 102 >>, << >>, << 97 >>, GEARMAN_JOB_PRIORITY_NORMAL,
                 FALSE, [NdOk(U32Zero) EXCEPT !.q_add = q_add])
  \/ Churn
  \/ CanDo(MaxCons, << 102 >>)
  \/ GrabJob(MaxCons)
  \/ \E j \in DOMAIN job : WorkComplete(MaxCons, j)
  \/ \E h \in LookupHandles : JobGet(1, h)

SpecLookup == InitPersist /\ [][NextLookup]_vars

\* the live jobs that carry the handle
Carriers(h) == { j \in DOMAIN job : job[j].job_handle = h }

\* C38 as stated: gearman_server_job_get(h) returns NULL when no live job
\* carries h and a live job that carries h otherwise, and every live job is
\* the one found under its own handle.
C38_Stated ==
  /\ \A h \in LookupHandles :
       IF Carriers(h) = {} THEN gearman_server_job_get(Server, h) = NULL
       ELSE gearman_server_job_get(Server, h) \in Carriers(h)
  /\ \A j \in DOMAIN job :
       gearman_server_job_get(Server, job[j].job_handle) = j

(***************************************************************************)
(* SpecFunctions: gearman_server_function_get with names that share       *)
(* prefixes, hold a zero byte or are empty, with and without memory, next  *)
(* to submissions, a worker that declares a function, grabs, completes     *)
(* and goes away.                                                          *)
(***************************************************************************)
LookupNames == { << >>, << 102 >>, << 102, 102 >>, << 102, 0 >> }

FunctionGet(function_name, mem) ==
  LET r == gearman_server_function_get(Server, function_name, mem)
      args == [ function_name |-> function_name, mem |-> mem,
                function |-> r.function,
                existed |-> \E f \in DOMAIN function :
                              function[f].function_name = function_name ]
  IN  Step(r.st, Call("function_get", 0, args, "", NULL, FALSE), << >>, << >>,
           {})

NextFunctions ==
  \/ \E function_name \in LookupNames, mem \in BOOLEAN :
       FunctionGet(function_name, mem)
  \/ \E function_name \in { << 102 >>, << 102, 102 >> } :
       SubmitJob(1, function_name, << >>, << 97 >>,
                 GEARMAN_JOB_PRIORITY_NORMAL, FALSE, NdOk(U32Zero))
  \/ CanDo(MaxCons, << 102 >>)
  \/ GrabJob(MaxCons)
  \/ \E j \in DOMAIN job : WorkComplete(MaxCons, j)
  \/ \E w \in DOMAIN worker : WorkerFree(w, MaxCons)

SpecFunctions == Init /\ [][NextFunctions]_vars

\* the functions that carry the name: TLA+ equality of sequences is equality
\* of length and of every byte
Named(function_name) ==
  { f \in DOMAIN function : function[f].function_name = function_name }

\* a function as gearman_server_function_create leaves it
Fresh(fn, function_name) ==
  /\ fn.function_name = function_name
  /\ fn.max_queue_size = 0
  /\ fn.job_total = 0 /\ fn.job_running = 0 /\ fn.job_count = 0
  /\ \A p \in Priorities : fn.job_list[p] = NULL
  /\ fn.worker_list = << >>

\* the step found the function that carries the name and changed nothing
GetFound ==
  /\ last'.args.function \in Named(last'.args.function_name)
  /\ function' = function /\ function_list' = function_list

\* the step created one function with the name and left the others alone
GetCreated ==
  /\ last'.args.function \in DOMAIN function' \ DOMAIN function
  /\ DOMAIN function' = DOMAIN function \cup { last'.args.function }
  /\ Fresh(function'[last'.args.function], last'.args.function_name)
  /\ \A f \in DOMAIN function : function'[f] = function[f]

\* the step returned NULL and changed nothing
GetFailed ==
  /\ last'.args.function = NULL
  /\ function' = function /\ function_list' = function_list

\* no two functions carry the same name, every function is on the list once
NoTwins ==
  /\ \A f, g \in DOMAIN function :
       function[f].function_name = function[g].function_name => f = g
  /\ Range(function_list) = DOMAIN function
  /\ Len(function_list) = Cardinality(DOMAIN function)

\* every function stays, with its name
Stays ==
  \A f \in DOMAIN function :
    /\ f \in DOMAIN function'
    /\ function'[f].function_name = function[f].function_name

\* C39 as stated: gearman_server_function_get returns the function that
\* carries exactly the name when there is one and otherwise creates one with
\* max_queue_size 0 and zero counters; no two functions carry the same name
\* and no function goes away.
C39_Stated ==
  [][ /\ last'.op = "function_get"
         => IF Named(last'.args.function_name) # {} THEN GetFound ELSE GetCreated
      /\ NoTwins' /\ Stays ]_vars

\* C39: gearman_server_function_get returns the function that carries
\* exactly the name (same length, same bytes) when there is one; otherwise it
\* creates one with max_queue_size 0 and zero counters when its allocations
\* succeed, and returns NULL and leaves the function list as it was when
\* they do not; no two functions carry the same name and no function goes
\* away.
C39_Theorem ==
  [][ /\ last'.op = "function_get"
         => IF Named(last'.args.function_name) # {} THEN GetFound
            ELSE IF last'.args.mem THEN GetCreated ELSE GetFailed
      /\ NoTwins' /\ Stays ]_vars

\* the function "f" was found next to "ff" and "f\0", and before that a
\* function was created while the others stayed
C39_Witness ==
  /\ last.op = "function_get"
  /\ last.args.existed
  /\ last.args.function_name = << 102 >>
  /\ last.args.function \in Named(<< 102 >>)
  /\ Named(<< 102, 102 >>) # {} /\ Named(<< 102, 0 >>) # {} /\ Named(<< >>) # {}
  /\ function_list[1] # last.args.function

\* a lookup without memory returned NULL
C39_Failed ==
  /\ last.op = "function_get"
  /\ ~last.args.existed /\ ~last.args.mem
  /\ last.args.function = NULL

(***************************************************************************)
(* SpecHash: _server_job_hash on byte strings with bytes below and above   *)
(* 0x80, as a build with signed char and as a build with unsigned char     *)
(* compute it, next to submissions with unique "-" and with a unique.      *)
(***************************************************************************)
MaxKeyLen == 2

HashBytes == { 0, 45, 97, 127, 128, 255 }

RECURSIVE KeysUpTo(_)
KeysUpTo(n) ==
  IF n = 0 THEN { << >> }
  ELSE LET shorter == KeysUpTo(n - 1)
       IN  shorter \cup { Append(key, b) : key \in shorter, b \in HashBytes }

HashKeys == KeysUpTo(MaxKeyLen)

\* one call of _server_job_hash(key, key_size)
JobHash(key, char_signed) ==
  Step(Server,
       Call("hash", 0,
            [ key |-> key, char_signed |-> char_signed,
              value |-> server_job_hash_compute(key, char_signed) ],
            "", NULL, FALSE),
       << >>, << >>, {})

NextHash ==
  \/ \E key \in HashKeys, char_signed \in BOOLEAN : JobHash(key, char_signed)
  \/ \E data \in Workloads :
       SubmitJob(1, << 102 >>, << 45 >>, data, GEARMAN_JOB_PRIORITY_NORMAL,
                 FALSE, NdOk(U32Zero))
  \/ SubmitJob(1, << 102 >>, << 97 >>, << >>, GEARMAN_JOB_PRIORITY_NORMAL,
               FALSE, NdOk(U32Zero))

SpecHash == Init /\ [][NextHash]_vars

\* the hash as the specification writes it: every byte is added as a number
\* of 0 .. 255
RECURSIVE MixAll(_, _, _)
MixAll(key, i, v) ==
  IF i > Len(key) THEN v
  ELSE LET a == U32Add(v, << 0, key[i] >>)
           b == U32Add(a, U32Shl(a, 10))
           c == U32Xor(b, U32Shr(b, 6))
       IN  IF c[1] >= 0 THEN MixAll(key, i + 1, c) ELSE c

MixingHash(key) ==
  LET v == MixAll(key, 1, U32Zero)
      a == U32Add(v, U32Shl(v, 3))
      b == U32Xor(a, U32Shr(a, 11))
      c == U32Add(b, U32Shl(b, 15))
  IN  IF c = U32Zero THEN U32One ELSE c

\* C40 as stated: for every byte string, bytes >= 0x80 included,
\* _server_job_hash returns the mixing hash of the specification, never 0
\* (1 for the empty string); a job submitted with unique "-" and empty data
\* is stored under key 0, which no lookup uses.
C40_Stated ==
  /\ last.op = "hash"
     => /\ last.args.value = MixingHash(last.args.key)
        /\ last.args.value # U32Zero
        /\ last.args.key = << >> => last.args.value = U32One
  /\ \A j \in DOMAIN job :
       submitted[j].unique = << 45 >> /\ submitted[j].data = << >>
       => job[j].unique_key = U32Zero

\* the parts that every build fulfils: the value is never 0, 1 for the empty
\* string, the specification's hash for keys without a byte >= 0x80 and on
\* a build whose char is unsigned
HashHolds ==
  /\ last.op = "hash"
     => /\ last.args.value # U32Zero
        /\ last.args.key = << >> => last.args.value = U32One
        /\ (~last.args.char_signed
            \/ \A i \in 1 .. Len(last.args.key) : last.args.key[i] < 128)
           => last.args.value = MixingHash(last.args.key)
  /\ \A j \in DOMAIN job :
       submitted[j].unique = << 45 >> /\ submitted[j].data = << >>
       => job[j].unique_key = U32Zero

\* the values of the compiled function for "\x80", "\xff", "a\x80", "\x7f"
\* and "\xff\xff" on a build with signed and with unsigned char
HashValues ==
  /\ server_job_hash_compute(<< 128 >>, TRUE) = << 49949, 20007 >>
  /\ server_job_hash_compute(<< 255 >>, TRUE) = << 44645, 42132 >>
  /\ server_job_hash_compute(<< 97, 128 >>, TRUE) = << 26169, 24382 >>
  /\ server_job_hash_compute(<< 127 >>, TRUE) = << 60147, 54724 >>
  /\ server_job_hash_compute(<< 255, 255 >>, TRUE) = << 59842, 54662 >>
  /\ server_job_hash_compute(<< 128 >>, FALSE) = << 10111, 52955 >>
  /\ server_job_hash_compute(<< 255 >>, FALSE) = << 51122, 3869 >>
  /\ server_job_hash_compute(<< 97, 128 >>, FALSE) = << 11970, 28661 >>
  /\ server_job_hash_compute(<< 127 >>, FALSE) = << 60147, 54724 >>
  /\ server_job_hash_compute(<< 255, 255 >>, FALSE) = << 7541, 39997 >>

====
